---- MODULE Spec2Model ----
(***************************************************************************)
(* A model of the Azure SQL tool server (src/mcp_server/server.py).        *)
(*                                                                         *)
(* The server is one asyncio process.  Every tool is a coroutine whose     *)
(* only await is "await get_azure_engine()", and get_azure_engine holds    *)
(* no await at all, so a tool call never yields to the event loop: tool    *)
(* calls queued by the dispatch layer run one after the other, in any      *)
(* order.  Inside one call the model steps statement by statement, so the  *)
(* order of the statements handed to the engine is observable in `sent`.   *)
(***************************************************************************)
EXTENDS Integers, Sequences, FiniteSets, TLC

VARIABLES
    local_db,   \* module-level LOCAL_DB setting (server.py:13)
    engine,     \* module-level `engine` (server.py:17): None or a handle
    built,      \* number of engine objects create_engine has returned
    tokens,     \* number of bearer tokens fetched from the identity provider
    task,       \* the queued calls of get_azure_engine and what each received
    pc,         \* position of the running tool call
    args,       \* arguments of the running tool call
    loc,        \* local variables of the running tool call
    table,      \* rows stored (committed) in the target table
    sent,       \* statements the engine has received, in order
    result,     \* text payload returned by the tool call
    chat,       \* a HistoryManager, the history handed to it, its last answer
    db,         \* committed rows of the SQLite file behind a DatabaseManager
    lock,       \* DatabaseManager._lock: the owning thread and its depth
    thread,     \* the threads calling the DatabaseManager, each with the
                \* uses of get_connection it is inside of
    last_use    \* the use of get_connection that finished in the step just
                \* taken, with what its method returned

vars == <<local_db, engine, built, tokens, task, pc, args, loc, table, sent, result,
          chat, db, lock, thread, last_use>>

engineVars == <<local_db, engine, built, tokens>>
callVars == <<pc, args, loc, table, sent, result>>
serverVars == <<engineVars, task, callVars>>
agentVars == <<chat, db, lock, thread, last_use>>

\* No HistoryManager and no DatabaseManager exist in the tool server's process.
AgentIdle ==
    /\ chat = <<>>
    /\ db = <<>>
    /\ lock = <<>>
    /\ thread = <<>>
    /\ last_use = <<>>

None == 0

Min(a, b) == IF a < b THEN a ELSE b
Max(a, b) == IF a > b THEN a ELSE b

(***************************************************************************)
(* ConnectionProvider: get_azure_engine                                    *)
(***************************************************************************)

\* Bounds of the connection model.
NumTasks == 3
MaxCalls == 2

Tasks == 1 .. NumTasks

\* One outcome of a call: the globals after it, and what the caller gets.
Outcome(eng, b, tk, ret, raised) ==
    [engine |-> eng, built |-> b, tokens |-> tk, ret |-> ret, raised |-> raised]

\* A construction that stores the handle before the step that raises.
ConstructEngineStoredEarly(b, tk, local) ==
    IF local
    THEN { Outcome(b + 1, b + 1, tk, b + 1, FALSE),
           Outcome(b + 1, b + 1, tk, None, TRUE) }
    ELSE { Outcome(b + 1, b + 1, tk + 1, b + 1, FALSE),
           Outcome(None, b, tk, None, TRUE),
           Outcome(b + 1, b + 1, tk + 1, None, TRUE) }

\* The try block (server.py:26-79) when no handle is memoized.  create_engine
\* and get_token are external calls: each either returns or raises.  A raise
\* is wrapped in one Exception and leaves the global unset; there is no retry.
ConstructEngine(b, tk, local) ==
    IF local
    THEN { Outcome(b + 1, b + 1, tk, b + 1, FALSE),     \* create_engine returned
           Outcome(None, b, tk, None, TRUE) }           \* create_engine raised
    ELSE { Outcome(b + 1, b + 1, tk + 1, b + 1, FALSE), \* token, then engine
           Outcome(None, b, tk, None, TRUE),            \* get_token raised
           Outcome(None, b, tk + 1, None, TRUE) }       \* create_engine raised

\* Mutants of get_azure_engine: the memo check dropped; the handle returned
\* but never stored in the global.
GetAzureEngineNoCheck(eng, b, tk, local) == ConstructEngine(b, tk, local)

GetAzureEngineNotStored(eng, b, tk, local) ==
    IF eng # None
    THEN { Outcome(eng, b, tk, eng, FALSE) }
    ELSE { [o EXCEPT !.engine = None] : o \in ConstructEngine(b, tk, local) }

\* get_azure_engine (server.py:19-79).  It holds no await, so the check of
\* the global and the construction are one step of the event loop.
GetAzureEngine(eng, b, tk, local) ==
    IF eng # None
    THEN { Outcome(eng, b, tk, eng, FALSE) }
    ELSE ConstructEngine(b, tk, local)

IdleCall ==
    /\ pc = "none"
    /\ args = <<>>
    /\ loc = <<>>
    /\ table = <<>>
    /\ sent = <<>>
    /\ result = <<>>

InitEngine ==
    /\ local_db \in BOOLEAN
    /\ engine = None
    /\ built = 0
    /\ tokens = 0
    /\ task = [t \in Tasks |-> [calls |-> 0, st |-> "idle", got |-> None]]
    /\ IdleCall
    /\ AgentIdle

\* A queued tool call reaches "engine = await get_azure_engine()".
Acquire(t) ==
    /\ task[t].calls < MaxCalls
    /\ \E o \in GetAzureEngine(engine, built, tokens, local_db) :
         /\ engine' = o.engine
         /\ built' = o.built
         /\ tokens' = o.tokens
         /\ task' = [task EXCEPT ![t] =
                        [calls |-> @.calls + 1,
                         st |-> IF o.raised THEN "error" ELSE "ok",
                         got |-> o.ret]]
    /\ UNCHANGED <<agentVars, local_db, callVars>>

NextEngine == \E t \in Tasks : Acquire(t)

SpecEngine == InitEngine /\ [][NextEngine]_vars

\* C7: under every order of the queued first uses, at most one engine handle
\* is ever constructed, and every call that returns receives that one handle.
C7_SingleHandle ==
    /\ built <= 1
    /\ \A t \in Tasks : task[t].st = "ok" => (engine # None /\ task[t].got = engine)

\* Two different calls made their first use and both hold the handle.
C7_Witness ==
    \E t, u \in Tasks :
        /\ t # u
        /\ task[t].calls = 1 /\ task[t].st = "ok"
        /\ task[u].calls = 1 /\ task[u].st = "ok"
        /\ built = 1

\* C8: after the first successful construction every later call returns the
\* memoized handle, constructs no engine and fetches no token.
C8_Idempotent ==
    [][built >= 1 =>
         /\ engine # None
         /\ engine' = engine
         /\ built' = built
         /\ tokens' = tokens
         /\ \A t \in Tasks : task'[t] # task[t] =>
                (task'[t].st = "ok" /\ task'[t].got = engine)]_vars

\* A call made after the construction (a second call of some task) returned.
C8_Witness ==
    \E t \in Tasks : task[t].calls = 2 /\ task[t].st = "ok" /\ built = 1

\* C19: a call of get_azure_engine that ends in an error was made with no
\* handle memoized, left the handle unset and no engine constructed, fetched
\* at most one token and handed nothing to its caller; and a call made while
\* no handle is memoized that returns has constructed a new engine itself.
C19_FailureLeavesUnset ==
    [][\A t \in Tasks :
          task'[t] # task[t] =>
              /\ task'[t].st = "error" =>
                    /\ engine = None
                    /\ engine' = None
                    /\ built' = built
                    /\ tokens' <= tokens + 1
                    /\ task'[t].got = None
              /\ (task'[t].st = "ok" /\ engine = None) =>
                    /\ built' = built + 1
                    /\ engine' # None
                    /\ task'[t].got = engine']_vars

\* One call failed to construct the engine; a later call of the same task
\* constructed it.
C19_Witness ==
    \E t, u \in Tasks :
        /\ t # u
        /\ task[u].st = "error"
        /\ task[t].calls = 2 /\ task[t].st = "ok"
        /\ built = 1
        /\ engine # None

(***************************************************************************)
(* Tool calls: what is common to every tool                                *)
(***************************************************************************)

\* The schema of the backing database: SchemaIntrospector's known set.
KnownTables == {"Customers"}
KnownColumns == {"City", "Country"}
Values == {1, 2}

\* JSON null, bound as SQL NULL; also what a row holds in a column no INSERT
\* gave a value to.
Null == -1
Cell(row, c) == IF c \in DOMAIN row THEN row[c] ELSE Null

\* Names a caller may pass: known ones, unknown ones, and the dotted form.
TableNames == {"Customers", "Ghost", "dbo.Customers"}
ColumnNames == KnownColumns \cup {"Nope"}

\* str.split('.', 1) on the names above (server.py:151-152).
HasDot(name) == name = "dbo.Customers"
SplitName(name) == IF name = "dbo.Customers" THEN <<"dbo", "Customers">> ELSE <<name>>

\* The table a spliced name resolves to in the engine, "" when there is none.
Resolve(name) ==
    IF name \in KnownTables THEN name
    ELSE IF HasDot(name) /\ SplitName(name)[2] \in KnownTables THEN SplitName(name)[2]
    ELSE ""

Range(f) == {f[x] : x \in DOMAIN f}

\* Every mapping from some of the columns `cols` to values: a parsed JSON object.
Dicts(cols) == UNION {[S -> Values] : S \in SUBSET cols}

NoParams == [n \in {} |-> 0]

\* A statement as handed to connection.execute: `idents` are the caller's
\* names spliced into the text as identifiers, `literals` the caller's strings
\* concatenated into the text between quotes, `numbers` the caller's counts
\* concatenated into the text (TOP n; OFFSET o, FETCH n), `params` the
\* bound-parameter map; `where` and `set` are the columns of the WHERE and
\* SET clauses.
Stmt(op, tbl, whereCols, setCols, idents, lits, nums, params) ==
    [op |-> op, table |-> tbl, where |-> whereCols, set |-> setCols,
     idents |-> idents, literals |-> lits, numbers |-> nums, params |-> params]

Commit == Stmt("COMMIT", "", {}, {}, {}, {}, <<>>, NoParams)

\* The engine's log after one more statement; ok is the engine's answer.
Send(log, stmt, ok) == Append(log, [stmt |-> stmt, ok |-> ok])

\* The operation label that prefixes each tool's error string.
ErrorLabel(tool) ==
    CASE tool = "get_table_schema" -> "Failed to get schema for"
      [] tool = "get_sample_data" -> "Failed to get sample data from"
      [] tool = "search_customers" -> "Customer search failed"
      [] tool = "get_customer_orders" -> "Failed to get orders for customer"
      [] tool = "search_products" -> "Product search failed"
      [] tool = "advanced_search" -> "Advanced search failed"
      [] tool = "range_search" -> "Range search failed"
      [] tool = "safe_insert_record" -> "Insert operation failed"
      [] tool = "safe_update_record" -> "Update operation failed"
      [] tool = "batch_insert_records" -> "Batch insert failed"
      [] tool = "bulk_update_records" -> "Bulk update failed"
      [] tool = "custom_aggregation" -> "Custom aggregation failed"
      [] tool = "paginated_query" -> "Paginated query failed"
      [] tool = "data_profiling" -> "Data profiling failed"

\* The two shapes of a returned payload: a plain string, a JSON document.
Text(label) == [kind |-> "text", label |-> label]
Json(body) == [kind |-> "json", body |-> body]
Failed(tool) == Text(ErrorLabel(tool))

\* min(max(1, x), hi): the safety check every limit goes through.
ClampNoFloor(x, hi) == Min(x, hi)
ClampNoCeiling(x, hi) == Max(1, x)
Clamp(x, hi) == Min(Max(1, x), hi)

\* The state a tool call starts from: nothing memoized yet, nothing sent.
InitCall(argSet, tables) ==
    /\ local_db \in BOOLEAN
    /\ engine = None
    /\ built = 0
    /\ tokens = 0
    /\ task = <<>>
    /\ pc = "ready"
    /\ args \in argSet
    /\ loc = <<>>
    /\ table \in tables
    /\ sent = <<>>
    /\ result = <<>>
    /\ AgentIdle

\* "engine = await get_azure_engine()", the first line of every tool: a raise
\* lands in the tool's outer except and becomes its error string.
CallStart ==
    /\ pc = "ready"
    /\ \E o \in GetAzureEngine(engine, built, tokens, local_db) :
         /\ engine' = o.engine
         /\ built' = o.built
         /\ tokens' = o.tokens
         /\ IF o.raised
            THEN /\ pc' = "done"
                 /\ result' = Failed(args.tool)
            ELSE /\ pc' = "run"
                 /\ result' = result
    /\ UNCHANGED <<agentVars, local_db, task, args, loc, table, sent>>

(***************************************************************************)
(* Single-statement tools: get_table_schema, get_sample_data, the fixed    *)
(* searches, paginated_query                                               *)
(***************************************************************************)

\* Bounds of the stored table and of the page numbers tried.
MaxRows == 2
MaxPage == 3

\* The operation-specific maxima.
SampleDataMax == 100
SearchCustomersMax == 100
CustomerOrdersMax == 200
SearchProductsMax == 100
BatchSizeMax == 1000
PageSizeMax == 100

Rows == [KnownColumns -> Values]
TablesUpTo(n) == UNION {[1 .. k -> Rows] : k \in 0 .. n}

\* Requested limits: below the floor, small ones, and around each maximum.
LimitInputs ==
    {-1, 0, 1, 2, 20} \cup
    UNION {{m, m + 1} : m \in {SampleDataMax, CustomerOrdersMax, BatchSizeMax}}
PageInputs == 0 .. MaxPage

QueryArgs ==
    [tool : {"get_table_schema"}, table_name : TableNames]
    \cup [tool : {"get_sample_data"}, table_name : TableNames, limit : LimitInputs]
    \cup [tool : {"search_customers", "get_customer_orders", "search_products"},
          term : Values, limit : LimitInputs]
    \cup [tool : {"paginated_query"}, query : KnownTables, page : PageInputs,
          page_size : LimitInputs, count_total : BOOLEAN]

InitQuery == InitCall(QueryArgs, TablesUpTo(MaxRows))

\* rows[from+1 .. from+n] of a result set, as OFFSET/FETCH and TOP cut it.
Slice(rows, from, n) ==
    IF from >= Len(rows) THEN <<>>
    ELSE SubSeq(rows, from + 1, Min(Len(rows), from + n))

\* get_table_schema (server.py:147-185): the name, or its two halves, goes
\* between quotes into the catalog query; nothing is bound.
SchemaWhereLiterals(table_name) ==
    IF HasDot(table_name)
    THEN {SplitName(table_name)[1], SplitName(table_name)[2]}
    ELSE {table_name}

GetTableSchema ==
    /\ pc = "run"
    /\ args.tool = "get_table_schema"
    /\ LET q == Stmt("SELECT", "INFORMATION_SCHEMA.COLUMNS", {}, {}, {},
                     SchemaWhereLiterals(args.table_name), <<>>, NoParams)
       IN \E ok \in BOOLEAN :
            /\ sent' = Send(sent, q, ok)
            /\ result' =
                 IF ~ok THEN Failed(args.tool)
                 ELSE IF Resolve(args.table_name) = "" THEN Text("Table not found")
                 ELSE Json([table |-> args.table_name, columns |-> KnownColumns])
    /\ pc' = "done"
    /\ UNCHANGED <<agentVars, engineVars, task, args, loc, table>>

\* get_sample_data (server.py:195-221): the table name and the clamped limit
\* are both spliced into the text.
SampleLimit(limit) == Clamp(limit, SampleDataMax)

GetSampleData ==
    /\ pc = "run"
    /\ args.tool = "get_sample_data"
    /\ LET limit == SampleLimit(args.limit)
           q == Stmt("SELECT", args.table_name, {}, {}, {args.table_name}, {},
                     <<limit>>, NoParams)
       IN \E ok \in {FALSE, Resolve(args.table_name) # ""} :
            /\ sent' = Send(sent, q, ok)
            /\ loc' = [limit |-> limit]
            /\ result' =
                 IF ~ok THEN Failed(args.tool)
                 ELSE Json([table |-> args.table_name, sample_rows |-> limit,
                            data |-> Slice(table, 0, limit)])
    /\ pc' = "done"
    /\ UNCHANGED <<agentVars, engineVars, task, args, table>>

\* search_customers, get_customer_orders, search_products (server.py:236-273,
\* 284-315, 369-405): fixed text; the clamped limit and the term are bound.
SearchMax(tool) ==
    CASE tool = "search_customers" -> SearchCustomersMax
      [] tool = "get_customer_orders" -> CustomerOrdersMax
      [] tool = "search_products" -> SearchProductsMax

SearchLimit(tool, limit) == Clamp(limit, SearchMax(tool))

FixedSearch ==
    /\ pc = "run"
    /\ args.tool \in {"search_customers", "get_customer_orders", "search_products"}
    /\ LET limit == SearchLimit(args.tool, args.limit)
           q == Stmt("SELECT", "", {}, {}, {}, {}, <<>>,
                     [n \in {"limit", "term"} |->
                         IF n = "limit" THEN limit ELSE args.term])
       IN \E ok \in BOOLEAN :
            /\ sent' = Send(sent, q, ok)
            /\ loc' = [limit |-> limit]
            /\ result' = IF ok THEN Json([found |-> 0]) ELSE Failed(args.tool)
    /\ pc' = "done"
    /\ UNCHANGED <<agentVars, engineVars, task, args, table>>

\* paginated_query (server.py:1048-1091).
PageSize(page_size) == Clamp(page_size, PageSizeMax)

OffsetFromPageNumber(page, size) == page * size
Offset(page, size) == (page - 1) * size

\* The page statement (server.py:1054-1059): the caller's query text with the
\* offset and the page size concatenated behind it.
PageStmt(query, offset, size) ==
    Stmt("SELECT", query, {}, {}, {}, {}, <<offset, size>>, NoParams)

PaginationInfo(page, size, data) ==
    [current_page |-> page, page_size |-> size, records_on_page |-> Len(data),
     has_next_page |-> (Len(data) = size)]

TotalPages(total_count, size) == (total_count + size - 1) \div size

\* The engine refuses a negative OFFSET; any statement may also fail.
PaginatedFetch ==
    /\ pc = "run"
    /\ args.tool = "paginated_query"
    /\ LET size == PageSize(args.page_size)
           offset == Offset(args.page, size)
           data == Slice(table, offset, size)
       IN \E ok \in {FALSE, offset >= 0} :
            /\ sent' = Send(sent, PageStmt(args.query, offset, size), ok)
            /\ loc' = [page_size |-> size, offset |-> offset,
                       data |-> IF ok THEN data ELSE <<>>]
            /\ IF ~ok
               THEN /\ pc' = "done"
                    /\ result' = Failed(args.tool)
               ELSE IF args.count_total
               THEN /\ pc' = "count"
                    /\ result' = result
               ELSE /\ pc' = "done"
                    /\ result' = Json([pagination |-> PaginationInfo(args.page, size, data),
                                       total |-> <<>>, data |-> data])
    /\ UNCHANGED <<agentVars, engineVars, task, args, table>>

\* The count statement (server.py:1068-1072), on the same connection.
PaginatedCount ==
    /\ pc = "count"
    /\ args.tool = "paginated_query"
    /\ LET q == Stmt("SELECT", args.query, {}, {}, {}, {}, <<>>, NoParams)
           total_count == Len(table)
       IN \E ok \in BOOLEAN :
            /\ sent' = Send(sent, q, ok)
            /\ result' =
                 IF ~ok THEN Failed(args.tool)
                 ELSE Json([pagination |-> PaginationInfo(args.page, loc.page_size, loc.data),
                            total |-> [total_records |-> total_count,
                                       total_pages |-> TotalPages(total_count, loc.page_size)],
                            data |-> loc.data])
    /\ pc' = "done"
    /\ UNCHANGED <<agentVars, engineVars, task, args, loc, table>>

NextQuery ==
    \/ CallStart
    \/ GetTableSchema
    \/ GetSampleData
    \/ FixedSearch
    \/ PaginatedFetch
    \/ PaginatedCount

SpecQuery == InitQuery /\ [][NextQuery]_vars

(***************************************************************************)
(* safe_update_record                                                      *)
(***************************************************************************)

\* Table names spliced behind FROM / UPDATE / INTO by the mutation tools.
SplicedTables == {"Customers", "Ghost"}

\* A parsed JSON object of column -> value pairs: over the table's columns,
\* or naming a column the table does not have.
ColumnDicts == Dicts(KnownColumns) \cup [{"Nope"} -> Values]

\* json_ok: do both JSON strings parse to objects.
UpdateArgs ==
    [tool : {"safe_update_record"}, table_name : SplicedTables, json_ok : {TRUE},
     where_conditions : ColumnDicts, update_data : ColumnDicts,
     validate_only : BOOLEAN]
    \cup [tool : {"safe_update_record"}, table_name : {"Customers"}, json_ok : {FALSE},
          where_conditions : {<<>>}, update_data : {<<>>}, validate_only : BOOLEAN]

InitUpdate == InitCall(UpdateArgs, TablesUpTo(MaxRows))

\* f"{prefix}_{col}": the placeholder name of a column's value.
ParamName(prefix, col) == prefix \o "_" \o col

\* The parameter map built beside a clause: one entry per column of `d`.
ClauseParams(prefix, d) ==
    [n \in {ParamName(prefix, c) : c \in DOMAIN d} |->
        d[CHOOSE c \in DOMAIN d : ParamName(prefix, c) = n]]

\* {**f, **g}, and f[k] = v for each (k, v) of g: later entries win.
Merge(f, g) ==
    [k \in DOMAIN f \cup DOMAIN g |-> IF k \in DOMAIN g THEN g[k] ELSE f[k]]

\* What the engine does with "col = :p AND ..." over `cols`: it raises when
\* the table is unknown, the clause is empty (the text ends in WHERE or SET)
\* or a column is not the table's.
EngineAcceptsEmptyClause(tbl, cols) ==
    /\ Resolve(tbl) # ""
    /\ cols \subseteq KnownColumns

EngineAccepts(tbl, cols) ==
    /\ Resolve(tbl) # ""
    /\ cols # {}
    /\ cols \subseteq KnownColumns

\* Does a stored row satisfy the conjunction col = value over `d`?
Matches(row, d) == \A c \in DOMAIN d : row[c] = d[c]

MatchingRows(rows, d) == SelectSeq(rows, LAMBDA r : Matches(r, d))

\* UPDATE ... SET d_set WHERE d_where, applied to the stored rows.
ApplyUpdate(rows, d_where, d_set) ==
    [i \in DOMAIN rows |->
        IF Matches(rows[i], d_where)
        THEN [c \in KnownColumns |-> IF c \in DOMAIN d_set THEN d_set[c] ELSE rows[i][c]]
        ELSE rows[i]]

\* The preview statement (server.py:656-666) and the UPDATE (server.py:685-693).
PreviewStmt(tbl, d_where) ==
    Stmt("SELECT", tbl, DOMAIN d_where, {}, {tbl} \cup DOMAIN d_where, {}, <<>>,
         ClauseParams("where", d_where))

UpdateStmtUnfiltered(tbl, d_where, d_set) ==
    Stmt("UPDATE", tbl, {}, DOMAIN d_set, {tbl} \cup DOMAIN d_set, {}, <<>>,
         ClauseParams("update", d_set))

UpdateStmt(tbl, d_where, d_set) ==
    Stmt("UPDATE", tbl, DOMAIN d_where, DOMAIN d_set,
         {tbl} \cup DOMAIN d_where \cup DOMAIN d_set, {}, <<>>,
         Merge(ClauseParams("where", d_where), ClauseParams("update", d_set)))

\* Where the call goes after the preview (server.py:669-684): a raise leaves
\* through the outer except; no row, or validate_only, returns at once.
AfterPreviewErrorSwallowed(ok, affected, validate_only) ==
    IF validate_only /\ ok /\ affected # <<>> THEN "validated" ELSE "update"

AfterPreviewFlagIgnored(ok, affected, validate_only) ==
    IF ~ok THEN "failed"
    ELSE IF affected = <<>> THEN "no_records"
    ELSE "update"

AfterPreview(ok, affected, validate_only) ==
    IF ~ok THEN "failed"
    ELSE IF affected = <<>> THEN "no_records"
    ELSE IF validate_only THEN "validated"
    ELSE "update"

\* json.loads of both payloads, the WHERE compilation and the preview SELECT
\* (server.py:653-683).
UpdatePreview ==
    /\ pc = "run"
    /\ args.tool = "safe_update_record"
    /\ IF ~args.json_ok
       THEN /\ pc' = "done"
            /\ result' = Failed(args.tool)
            /\ UNCHANGED <<sent, loc>>
       ELSE \E ok \in {FALSE, EngineAccepts(args.table_name, DOMAIN args.where_conditions)} :
              LET affected == IF ok THEN MatchingRows(table, args.where_conditions)
                              ELSE <<>>
                  next == AfterPreview(ok, affected, args.validate_only)
              IN /\ sent' = Send(sent, PreviewStmt(args.table_name, args.where_conditions), ok)
                 /\ loc' = [affected_records |-> affected, pending |-> table]
                 /\ pc' = IF next = "update" THEN "update" ELSE "done"
                 /\ result' =
                      CASE next = "failed" -> Failed(args.tool)
                        [] next = "no_records" -> Text("No records found")
                        [] next = "validated" ->
                             Json([validation |-> "passed",
                                   records_that_would_be_updated |-> Len(affected),
                                   current_records |-> affected,
                                   updates_to_apply |-> args.update_data])
                        [] OTHER -> result
    /\ UNCHANGED <<agentVars, engineVars, task, args, table>>

\* The UPDATE on the same connection (server.py:685-695); its effect stays
\* uncommitted in `pending`.
UpdateExecute ==
    /\ pc = "update"
    /\ args.tool = "safe_update_record"
    /\ \E ok \in {FALSE, /\ EngineAccepts(args.table_name, DOMAIN args.where_conditions)
                         /\ EngineAccepts(args.table_name, DOMAIN args.update_data)} :
         /\ sent' = Send(sent, UpdateStmt(args.table_name, args.where_conditions,
                                          args.update_data), ok)
         /\ IF ok
            THEN /\ loc' = [loc EXCEPT !.pending =
                               ApplyUpdate(table, args.where_conditions, args.update_data)]
                 /\ pc' = "commit"
                 /\ result' = result
            ELSE /\ loc' = loc
                 /\ pc' = "done"
                 /\ result' = Failed(args.tool)
    /\ UNCHANGED <<agentVars, engineVars, task, args, table>>

\* connection.commit() (server.py:696): a raise leaves through the outer
\* except and closing the connection rolls the UPDATE back.
UpdateCommit ==
    /\ pc = "commit"
    /\ args.tool = "safe_update_record"
    /\ \E ok \in BOOLEAN :
         /\ sent' = Send(sent, Commit, ok)
         /\ table' = IF ok THEN loc.pending ELSE table
         /\ result' =
              IF ok
              THEN Json([operation |-> "update",
                         rows_affected |-> Len(MatchingRows(table, args.where_conditions)),
                         updates_applied |-> args.update_data])
              ELSE Failed(args.tool)
    /\ pc' = "done"
    /\ UNCHANGED <<agentVars, engineVars, task, args, loc>>

NextUpdate ==
    \/ CallStart
    \/ UpdatePreview
    \/ UpdateExecute
    \/ UpdateCommit

SpecUpdate == InitUpdate /\ [][NextUpdate]_vars

\* The positions of `sent` holding a statement of kind op.
Sent(op) == {k \in DOMAIN sent : sent[k].stmt.op = op}

\* Statement u carries every bound parameter of statement q, with its value.
CarriesParams(u, q) ==
    \A n \in DOMAIN q.params : n \in DOMAIN u.params /\ u.params[n] = q.params[n]

\* C3: every UPDATE of safe_update_record is preceded by a preview SELECT of
\* the same table with the same WHERE predicate and the same bound
\* parameters, that preview succeeded, and validate_only is false.
C3_PreviewBeforeUpdate ==
    \A k \in Sent("UPDATE") :
        /\ ~args.validate_only
        /\ \E j \in Sent("SELECT") :
             /\ j < k
             /\ sent[j].ok
             /\ sent[j].stmt.table = sent[k].stmt.table
             /\ sent[j].stmt.where = sent[k].stmt.where
             /\ DOMAIN sent[j].stmt.params # {}
             /\ CarriesParams(sent[k].stmt, sent[j].stmt)

\* An UPDATE ran and was committed after a preview that matched rows.
C3_Witness ==
    /\ pc = "done"
    /\ Sent("UPDATE") # {}
    /\ Sent("COMMIT") # {}
    /\ result.kind = "json"
    /\ result.body.rows_affected >= 1

\* C4: a validate_only call issues no UPDATE and no commit and leaves the
\* stored rows as they were: the rows it reports in current_records are the
\* rows the same WHERE predicate selects after the call.
C4_ValidateOnlyReadOnly ==
    /\ [][args.validate_only => table' = table]_vars
    /\ [](args.validate_only =>
            /\ Sent("UPDATE") = {}
            /\ Sent("COMMIT") = {}
            /\ (pc = "done" /\ result.kind = "json") =>
                   result.body.current_records = MatchingRows(table, args.where_conditions))

\* A validate_only call previewed rows that its update payload would change.
C4_Witness ==
    /\ pc = "done"
    /\ args.validate_only
    /\ result.kind = "json"
    /\ Len(result.body.current_records) >= 1
    /\ ApplyUpdate(table, args.where_conditions, args.update_data) # table

(***************************************************************************)
(* batch_insert_records                                                    *)
(***************************************************************************)

\* Bound on the number of records in one batch job.
MaxRecords == 3

\* The column sets a submitted record may have: the table's columns, one of
\* them, a column the table does not have, none.
RecordShapes == {KnownColumns, {"City"}, {"Nope"}, {}}

\* A records array of the given shapes; the k-th record holds k in every
\* field, so that every stored row is traced to the record it came from.
RecordsOf(shapes) == [k \in DOMAIN shapes |-> [c \in shapes[k] |-> k]]

RecordArrays == {RecordsOf(sh) : sh \in UNION {[1 .. n -> RecordShapes] : n \in 0 .. MaxRecords}}

BatchSizes == {0, 2, 3, BatchSizeMax, BatchSizeMax + 1}

\* records_data is a JSON array, some other JSON value, or not JSON at all.
BatchArgs ==
    [tool : {"batch_insert_records"}, table_name : SplicedTables,
     payload : {"array"}, records : RecordArrays, batch_size : BatchSizes]
    \cup [tool : {"batch_insert_records"}, table_name : {"Customers"},
          payload : {"object", "malformed"}, records : {<<>>}, batch_size : BatchSizes]

\* Rows stored before the call: none, or one row of an earlier insert.
BatchTables == {<<>>, <<[c \in KnownColumns |-> 0]>>}

InitBatch == InitCall(BatchArgs, BatchTables)

BatchSize(batch_size) == Clamp(batch_size, BatchSizeMax)

\* records[i:i + batch_size] (server.py:734).
BatchAt(records, i, b) ==
    IF i >= Len(records) THEN <<>>
    ELSE SubSeq(records, i + 1, Min(Len(records), i + b))

\* The INSERT of one record (server.py:740-749): the column list is the first
\* record's keys, the record itself is handed over as the parameter map.
InsertStmt(tbl, columns, record) ==
    Stmt("INSERT", tbl, {}, columns, {tbl} \cup columns, {}, <<>>, record)

\* The INSERT is accepted when the engine accepts the column list and the
\* record has a value for every placeholder.
InsertAccepted(tbl, columns, record) ==
    /\ EngineAccepts(tbl, columns)
    /\ columns \subseteq DOMAIN record

\* The row the INSERT stores: the record's values for the listed columns.
InsertedRow(columns, record) == [c \in columns |-> record[c]]

\* The range loop (server.py:733): where the next chunk starts, whether this
\* one failed or not.
NextBatchStartAbort(i, b, n, failed) == IF failed THEN n ELSE i + b
NextBatchStart(i, b, n, failed) == i + b

\* What is stored once a chunk's connection is closed after a raise: the
\* uncommitted rows are rolled back.
StoredAfterFailureKept(stored, pending) == stored \o pending
StoredAfterFailure(stored, pending) == stored

\* The except branch of one chunk (server.py:754-759) and the step to the next.
FailChunk(error) ==
    LET batch == BatchAt(args.records, loc.i, loc.batch_size)
    IN /\ loc' = [loc EXCEPT
                    !.failed_batches = Append(@, [batch_start |-> loc.i,
                                                  batch_size |-> Len(batch),
                                                  error |-> error]),
                    !.attempts = Append(@, [start |-> loc.i, size |-> Len(batch),
                                            outcome |-> error]),
                    !.pending = <<>>,
                    !.j = 0,
                    !.i = NextBatchStart(loc.i, loc.batch_size, Len(args.records), TRUE)]
       /\ table' = StoredAfterFailure(table, loc.pending)
       /\ pc' = "chunk"

\* json.loads, the clamp and the isinstance check (server.py:723-730).
BatchStart ==
    /\ pc = "run"
    /\ args.tool = "batch_insert_records"
    /\ IF args.payload = "malformed"
       THEN /\ pc' = "done"
            /\ result' = Failed(args.tool)
            /\ loc' = loc
       ELSE IF args.payload # "array"
       THEN /\ pc' = "done"
            /\ result' = Text("records_data must be a JSON array")
            /\ loc' = [batch_size |-> BatchSize(args.batch_size)]
       ELSE /\ pc' = "chunk"
            /\ result' = result
            /\ loc' = [batch_size |-> BatchSize(args.batch_size), i |-> 0, j |-> 0,
                       total_inserted |-> 0, failed_batches |-> <<>>,
                       pending |-> <<>>, attempts |-> <<>>, before |-> table]
    /\ UNCHANGED <<agentVars, engineVars, task, args, table, sent>>

\* One more turn of the loop: engine.connect() for the chunk at i.
ChunkOpen ==
    /\ pc = "chunk"
    /\ args.tool = "batch_insert_records"
    /\ loc.i < Len(args.records)
    /\ \E ok \in BOOLEAN :
         IF ok
         THEN /\ pc' = "insert"
              /\ loc' = [loc EXCEPT !.j = 0, !.pending = <<>>]
              /\ table' = table
         ELSE FailChunk("connect")
    /\ UNCHANGED <<agentVars, engineVars, task, args, sent, result>>

\* connection.execute(insert_query, record) for the next record of the chunk.
ChunkInsert ==
    /\ pc = "insert"
    /\ args.tool = "batch_insert_records"
    /\ LET batch == BatchAt(args.records, loc.i, loc.batch_size)
           columns == DOMAIN batch[1]
           record == batch[loc.j + 1]
       IN \E ok \in {FALSE, InsertAccepted(args.table_name, columns, record)} :
            /\ sent' = Send(sent, InsertStmt(args.table_name, columns, record), ok)
            /\ IF ok
               THEN /\ loc' = [loc EXCEPT !.j = @ + 1,
                                          !.pending = Append(@, InsertedRow(columns, record))]
                    /\ pc' = IF loc.j + 1 = Len(batch) THEN "commit" ELSE "insert"
                    /\ table' = table
               ELSE FailChunk("execute")
    /\ UNCHANGED <<agentVars, engineVars, task, args, result>>

\* total_inserted += len(batch) (server.py:752).
InsertedAfterCommitByStatement(total_inserted, batch) == total_inserted + 1
InsertedAfterCommit(total_inserted, batch) == total_inserted + Len(batch)

\* connection.commit() of the chunk (server.py:751-752).
ChunkCommit ==
    /\ pc = "commit"
    /\ args.tool = "batch_insert_records"
    /\ LET batch == BatchAt(args.records, loc.i, loc.batch_size)
       IN \E ok \in BOOLEAN :
            /\ sent' = Send(sent, Commit, ok)
            /\ IF ok
               THEN /\ table' = table \o loc.pending
                    /\ loc' = [loc EXCEPT
                                 !.total_inserted = InsertedAfterCommit(@, batch),
                                 !.attempts = Append(@, [start |-> loc.i, size |-> Len(batch),
                                                         outcome |-> "committed"]),
                                 !.pending = <<>>,
                                 !.j = 0,
                                 !.i = NextBatchStart(loc.i, loc.batch_size,
                                                      Len(args.records), FALSE)]
                    /\ pc' = "chunk"
               ELSE FailChunk("commit")
    /\ UNCHANGED <<agentVars, engineVars, task, args, result>>

\* The loop is over: the report (server.py:761-768).
BatchReturn ==
    /\ pc = "chunk"
    /\ args.tool = "batch_insert_records"
    /\ loc.i >= Len(args.records)
    /\ result' = Json([operation |-> "batch_insert",
                       total_records |-> Len(args.records),
                       successfully_inserted |-> loc.total_inserted,
                       failed_batches |-> loc.failed_batches,
                       batch_size_used |-> loc.batch_size])
    /\ pc' = "done"
    /\ UNCHANGED <<agentVars, engineVars, task, args, loc, table, sent>>

NextBatch ==
    \/ CallStart
    \/ BatchStart
    \/ ChunkOpen
    \/ ChunkInsert
    \/ ChunkCommit
    \/ BatchReturn

SpecBatch == InitBatch /\ [][NextBatch]_vars

\* The number of chunks of n rows cut at every b-th row.
ChunkCount(n, b) == (n + b - 1) \div b

\* The attempts that failed, in order, as failed_batches lists them.
FailedAttempts(attempts) ==
    LET failed == SelectSeq(attempts, LAMBDA a : a.outcome # "committed")
    IN [m \in DOMAIN failed |->
           [batch_start |-> failed[m].start, batch_size |-> failed[m].size,
            error |-> failed[m].outcome]]

\* C1: when batch_insert_records returns its report, the units of work it
\* opened are exactly the chunks starting at 0, b, 2b, ... of size b (the
\* last one of what is left); each one either committed or is listed in
\* failed_batches with its start, its size and the error, and a failed chunk
\* stops no later chunk.
C1_ChunksIsolated ==
    (pc = "done" /\ args.tool = "batch_insert_records" /\ result.kind = "json") =>
        LET b == result.body.batch_size_used
            n == Len(args.records)
        IN /\ Len(loc.attempts) = ChunkCount(n, b)
           /\ \A k \in DOMAIN loc.attempts :
                /\ loc.attempts[k].start = (k - 1) * b
                /\ loc.attempts[k].size = Min(b, n - (k - 1) * b)
                /\ loc.attempts[k].size >= 1
           /\ result.body.failed_batches = FailedAttempts(loc.attempts)

\* Three chunks; the second failed, the first and the third committed.
C1_Witness ==
    /\ pc = "done"
    /\ result.kind = "json"
    /\ Len(loc.attempts) = 3
    /\ loc.attempts[1].outcome = "committed"
    /\ loc.attempts[2].outcome = "execute"
    /\ loc.attempts[3].outcome = "committed"
    /\ Len(result.body.failed_batches) = 1
    /\ result.body.failed_batches[1].batch_start = result.body.batch_size_used

\* The rows of the chunks of `records` that start below `upto` and are not
\* among the failed starts, each row cut to its chunk's column list.
RECURSIVE RowsOfChunks(_, _, _, _, _)
RowsOfChunks(records, b, start, upto, failedStarts) ==
    IF start >= upto \/ start >= Len(records) THEN <<>>
    ELSE LET batch == BatchAt(records, start, b)
             rows == IF start \in failedStarts THEN <<>>
                     ELSE [j \in DOMAIN batch |-> InsertedRow(DOMAIN batch[1], batch[j])]
         IN rows \o RowsOfChunks(records, b, start + b, upto, failedStarts)

FailedStarts(failed_batches) ==
    {failed_batches[m].batch_start : m \in DOMAIN failed_batches}

\* C2: at every point of a batch insert the stored rows are the rows stored
\* before the call followed by the rows of the finished chunks that are not
\* listed in failed_batches: a chunk that fails part-way stores none of its
\* rows and undoes no earlier chunk.
C2_StoredIsCommittedChunks ==
    (args.tool = "batch_insert_records" /\ pc \in {"chunk", "insert", "commit", "done"}
        /\ DOMAIN loc # {}  /\ "i" \in DOMAIN loc) =>
        table = loc.before \o RowsOfChunks(args.records, loc.batch_size, 0, loc.i,
                                           FailedStarts(loc.failed_batches))

\* A chunk failed after one of its rows was executed, behind a committed
\* chunk, and the call has returned.
C2_Witness ==
    /\ pc = "done"
    /\ result.kind = "json"
    /\ loc.batch_size = 2
    /\ Len(loc.attempts) = 2
    /\ loc.attempts[1].outcome = "committed"
    /\ loc.attempts[2].outcome = "commit"
    /\ loc.before # <<>>
    /\ Len(table) = 3

\* The sum of the sizes of the first n attempts whose outcome is in `outcomes`.
RECURSIVE SizeSum(_, _, _)
SizeSum(attempts, n, outcomes) ==
    IF n = 0 THEN 0
    ELSE SizeSum(attempts, n - 1, outcomes)
         + (IF attempts[n].outcome \in outcomes THEN attempts[n].size ELSE 0)

\* The sum of batch_size over the first n entries of failed_batches.
RECURSIVE FailedSizeSum(_, _)
FailedSizeSum(failed_batches, n) ==
    IF n = 0 THEN 0
    ELSE FailedSizeSum(failed_batches, n - 1) + failed_batches[n].batch_size

\* C18: in the report of batch_insert_records total_records is the number
\* of rows submitted, successfully_inserted is the sum of the sizes of the
\* chunks that committed (and the number of rows the call stored), and
\* successfully_inserted plus the batch_size of every failed batch is
\* total_records.
C18_ReportAddsUp ==
    (pc = "done" /\ args.tool = "batch_insert_records" /\ result.kind = "json") =>
        LET r == result.body
        IN /\ r.total_records = Len(args.records)
           /\ r.successfully_inserted
                = SizeSum(loc.attempts, Len(loc.attempts), {"committed"})
           /\ r.successfully_inserted = Len(table) - Len(loc.before)
           /\ r.successfully_inserted
                + FailedSizeSum(r.failed_batches, Len(r.failed_batches))
                = r.total_records

\* Three rows in chunks of two: the first chunk committed, the second failed.
C18_Witness ==
    /\ pc = "done"
    /\ args.tool = "batch_insert_records"
    /\ result.kind = "json"
    /\ result.body.total_records = 3
    /\ result.body.batch_size_used = 2
    /\ result.body.successfully_inserted = 2
    /\ Len(result.body.failed_batches) = 1
    /\ result.body.failed_batches[1].batch_size = 1

(***************************************************************************)
(* bulk_update_records                                                     *)
(***************************************************************************)

\* Bound on the number of rules in one bulk update.
MaxRules == 2

\* The 'where' and 'set' objects of a rule: empty (or absent), one column of
\* the table, a column the table does not have.
RuleDicts == Dicts({"City"}) \cup [{"Nope"} -> {1}]

\* An element of the rules array: a JSON object with 'where' and 'set', or a
\* JSON value that is no object (rule.get raises on it).
Rules ==
    [kind : {"object"}, where : RuleDicts, set : RuleDicts]
    \cup {[kind |-> "scalar", where |-> <<>>, set |-> <<>>]}

RuleArrays == UNION {[1 .. n -> Rules] : n \in 0 .. MaxRules}

BulkArgs ==
    [tool : {"bulk_update_records"}, table_name : SplicedTables,
     payload : {"array"}, rules : RuleArrays]
    \cup [tool : {"bulk_update_records"}, table_name : {"Customers"},
          payload : {"object", "malformed"}, rules : {<<>>}]

\* Rows stored before the call: one row per value of City.
BulkTables == {<<[City |-> 1, Country |-> 1], [City |-> 2, Country |-> 1]>>}

InitBulk == InitCall(BulkArgs, BulkTables)

\* f"{prefix}_{col}_{i}": the placeholder name of a column's value in rule i.
RuleParamName(prefix, col, i) == prefix \o "_" \o col \o "_" \o ToString(i)

RuleParams(prefix, d, i) ==
    [n \in {RuleParamName(prefix, c, i) : c \in DOMAIN d} |->
        d[CHOOSE c \in DOMAIN d : RuleParamName(prefix, c, i) = n]]

\* The UPDATE of rule i (server.py:798-819).
RuleStmt(tbl, rule, i) ==
    Stmt("UPDATE", tbl, DOMAIN rule.where, DOMAIN rule.set,
         {tbl} \cup DOMAIN rule.where \cup DOMAIN rule.set, {}, <<>>,
         Merge(RuleParams("where", rule.where, i), RuleParams("set", rule.set, i)))

\* "if where_clauses and set_clauses" (server.py:814).
Executable(rule) == rule.kind = "object" /\ DOMAIN rule.where # {} /\ DOMAIN rule.set # {}

\* The enumerate loop (server.py:792): the index of the next rule, whether
\* this one raised or not.
NextRuleAbort(i, n, failed) == IF failed THEN n ELSE i + 1
NextRule(i, n, failed) == i + 1

\* json.loads and the isinstance check (server.py:784-789).
BulkStart ==
    /\ pc = "run"
    /\ args.tool = "bulk_update_records"
    /\ IF args.payload = "malformed"
       THEN /\ pc' = "done"
            /\ result' = Failed(args.tool)
       ELSE IF args.payload # "array"
       THEN /\ pc' = "done"
            /\ result' = Text("update_rules must be a JSON array")
       ELSE /\ pc' = "connect"
            /\ result' = result
    /\ UNCHANGED <<agentVars, engineVars, task, args, loc, table, sent>>

\* engine.connect(): the one unit of work shared by all rules.
BulkConnect ==
    /\ pc = "connect"
    /\ args.tool = "bulk_update_records"
    /\ \E ok \in BOOLEAN :
         IF ok
         THEN /\ pc' = "rules"
              /\ loc' = [i |-> 0, results |-> <<>>, pending |-> table, before |-> table]
              /\ result' = result
         ELSE /\ pc' = "done"
              /\ loc' = loc
              /\ result' = Failed(args.tool)
    /\ UNCHANGED <<agentVars, engineVars, task, args, table, sent>>

\* One rule (server.py:793-836): a raise while compiling or executing it
\* is caught and becomes a failed entry; a rule without where or set clauses
\* is passed over.
BulkRule ==
    /\ pc = "rules"
    /\ args.tool = "bulk_update_records"
    /\ loc.i < Len(args.rules)
    /\ LET i == loc.i
           rule == args.rules[i + 1]
           n == Len(args.rules)
           failedEntry == [rule |-> i + 1, status |-> "failed", error |-> "raised"]
       IN IF rule.kind # "object"
          THEN /\ loc' = [loc EXCEPT !.results = Append(@, failedEntry),
                                     !.i = NextRule(i, n, TRUE)]
               /\ sent' = sent
          ELSE IF ~Executable(rule)
          THEN /\ loc' = [loc EXCEPT !.i = NextRule(i, n, FALSE)]
               /\ sent' = sent
          ELSE \E ok \in {FALSE, /\ EngineAccepts(args.table_name, DOMAIN rule.where)
                                 /\ EngineAccepts(args.table_name, DOMAIN rule.set)} :
                 /\ sent' = Send(sent, RuleStmt(args.table_name, rule, i), ok)
                 /\ loc' =
                      IF ok
                      THEN [loc EXCEPT
                              !.results = Append(@,
                                  [rule |-> i + 1, status |-> "success",
                                   rows_affected |-> Len(MatchingRows(loc.pending, rule.where))]),
                              !.pending = ApplyUpdate(loc.pending, rule.where, rule.set),
                              !.i = NextRule(i, n, FALSE)]
                      ELSE [loc EXCEPT !.results = Append(@, failedEntry),
                                       !.i = NextRule(i, n, TRUE)]
    /\ UNCHANGED <<agentVars, engineVars, task, args, table, pc, result>>

\* connection.commit() behind the loop (server.py:838) and the report; a
\* raise leaves through the outer except and everything is rolled back.
BulkCommit ==
    /\ pc = "rules"
    /\ args.tool = "bulk_update_records"
    /\ loc.i >= Len(args.rules)
    /\ \E ok \in BOOLEAN :
         /\ sent' = Send(sent, Commit, ok)
         /\ table' = IF ok THEN loc.pending ELSE table
         /\ result' =
              IF ok
              THEN Json([operation |-> "bulk_update",
                         rules_processed |-> Len(args.rules),
                         results |-> loc.results])
              ELSE Failed(args.tool)
    /\ pc' = "done"
    /\ UNCHANGED <<agentVars, engineVars, task, args, loc>>

NextBulk ==
    \/ CallStart
    \/ BulkStart
    \/ BulkConnect
    \/ BulkRule
    \/ BulkCommit

SpecBulk == InitBulk /\ [][NextBulk]_vars

\* The rules of the report's results that carry the given status.
RulesWithStatus(results, status) ==
    {results[m].rule : m \in {x \in DOMAIN results : results[x].status = status}}

\* The rows after the rules numbered in `done` were applied in rule order.
RECURSIVE ApplyRules(_, _, _, _)
ApplyRules(rows, rules, k, done) ==
    IF k > Len(rules) THEN rows
    ELSE ApplyRules(IF k \in done THEN ApplyUpdate(rows, rules[k].where, rules[k].set)
                    ELSE rows,
                    rules, k + 1, done)

\* The UPDATE statements sent for rule number k (its placeholders end in k-1).
SentForRule(k) ==
    {j \in Sent("UPDATE") :
        \E n \in DOMAIN sent[j].stmt.params :
            \E prefix \in {"where", "set"}, c \in sent[j].stmt.idents :
                n = RuleParamName(prefix, c, k - 1)}

\* C9: once bulk_update_records has opened its unit of work and finished,
\* every rule that has where and set clauses was executed exactly once, also
\* behind a rule that failed; a rule that raised while compiling or executing
\* is a failed entry of the report; exactly one commit was issued, as the last
\* statement, and when it succeeded the stored rows are the rows before the
\* call with the updates of all successful rules applied.
C9_SharedUnitOfWork ==
    (pc = "done" /\ args.tool = "bulk_update_records" /\ Sent("COMMIT") # {}) =>
        LET n == Len(args.rules)
            ok == {k \in 1 .. n : \E j \in SentForRule(k) : sent[j].ok}
            raised == {k \in 1 .. n : \/ args.rules[k].kind # "object"
                                      \/ \E j \in SentForRule(k) : ~sent[j].ok}
        IN /\ \A k \in 1 .. n :
                Cardinality(SentForRule(k)) = IF Executable(args.rules[k]) THEN 1 ELSE 0
           /\ Sent("COMMIT") = {Len(sent)}
           /\ RulesWithStatus(loc.results, "failed") = raised
           /\ RulesWithStatus(loc.results, "success") = ok
           /\ table = IF sent[Len(sent)].ok
                      THEN ApplyRules(loc.before, args.rules, 1, ok)
                      ELSE loc.before
           /\ result.kind = "json" <=> sent[Len(sent)].ok

\* The first rule failed in the engine, the second one still ran and its
\* update was committed.
C9_Witness ==
    /\ pc = "done"
    /\ result.kind = "json"
    /\ Len(loc.results) = 2
    /\ loc.results[1].status = "failed"
    /\ loc.results[2].status = "success"
    /\ loc.results[2].rows_affected = 1
    /\ table # loc.before

(***************************************************************************)
(* advanced_search and range_search                                        *)
(***************************************************************************)

\* Bounds on a filter payload: operator entries in all, elements of an IN list.
MaxPredicates == 2
MaxInList == 2

AdvancedSearchMax == 200
RangeSearchMax == 200

\* The operators advanced_search compiles, and one it does not know.
KnownOps == {"eq", "like", "gt", "lt", "gte", "lte", "in"}
Ops == KnownOps \cup {"ne"}

InLists == {[i \in 1 .. n |-> i] : n \in 0 .. MaxInList}

\* One operator entry of a condition object: "in" comes with a list, every
\* other operator with one value.
OpEntries ==
    [op : Ops \ {"in"}, value : {1}, list : {<<>>}]
    \cup [op : {"in"}, value : {0}, list : InLists]

\* The entries of a JSON object have distinct keys.
DistinctBy(seq, key(_)) ==
    \A i, j \in DOMAIN seq : i # j => key(seq[i]) # key(seq[j])

Conditions ==
    {d : d \in {c \in UNION {[1 .. n -> OpEntries] : n \in 0 .. MaxPredicates} :
                    DistinctBy(c, LAMBDA e : e.op)}}

\* One entry of the filters object: a column with a condition object, or
\* with a JSON value that is no object (passed over by the isinstance test).
FilterEntries(cols) ==
    [column : cols, kind : {"object"}, ops : Conditions]
    \cup [column : cols, kind : {"scalar"}, ops : {<<>>}]

RECURSIVE SumLen(_, _)
SumLen(entries, k) ==
    IF k > Len(entries) THEN 0 ELSE Len(entries[k].ops) + SumLen(entries, k + 1)

\* The filters objects with one key among the two columns.
FiltersOfOne == {<<e>> : e \in FilterEntries({"City", "Nope"})}

\* The entries of the two columns side by side, holding at most
\* MaxPredicates operator entries in all.
KeyPairs ==
    {q : q \in {p \in FilterEntries({"City"}) \X FilterEntries({"Nope"}) :
                    Len(p[1].ops) + Len(p[2].ops) <= MaxPredicates}}

\* The filters objects with both columns as keys, in either order.
FiltersOfTwo == KeyPairs \cup {<<p[2], p[1]>> : p \in KeyPairs}

Filters == {f : f \in {<<>>} \cup FiltersOfOne \cup FiltersOfTwo}

\* The two nested loops (server.py:464-466): every (column, op, value) of the
\* payload in iteration order; its position is the value of param_counter.
RECURSIVE FlatPredicates(_, _)
FlatPredicates(filters, k) ==
    IF k > Len(filters) THEN <<>>
    ELSE (IF filters[k].kind = "object"
          THEN [m \in DOMAIN filters[k].ops |->
                   [column |-> filters[k].column, op |-> filters[k].ops[m].op,
                    value |-> filters[k].ops[m].value, list |-> filters[k].ops[m].list]]
          ELSE <<>>)
         \o FlatPredicates(filters, k + 1)

\* f"{prefix}{counter}" and f"{prefix}{counter}_{i}".
CounterNameStuck(prefix, counter) == prefix \o "1"
CounterName(prefix, counter) == prefix \o ToString(counter)
ListName(prefix, counter, i) == CounterName(prefix, counter) \o "_" \o ToString(i)

\* f"%{value}%"
Wildcard(value) == <<"%", value, "%">>

\* The placeholders one predicate binds, in order (server.py:467-492).
PlaceholdersAnyOperator(prefix, e, counter, ops) ==
    IF e.op = "in"
    THEN [i \in 1 .. Len(e.list) |-> ListName(prefix, counter, i - 1)]
    ELSE <<CounterName(prefix, counter)>>

Placeholders(prefix, e, counter, ops) ==
    IF e.op \notin ops THEN <<>>
    ELSE IF e.op = "in"
    THEN [i \in 1 .. Len(e.list) |-> ListName(prefix, counter, i - 1)]
    ELSE <<CounterName(prefix, counter)>>

\* The value bound under the i-th placeholder of a predicate.
BoundValueFirst(e, i) ==
    IF e.op = "in" THEN e.list[1]
    ELSE IF e.op = "like" THEN Wildcard(e.value)
    ELSE e.value

BoundValue(e, i) ==
    IF e.op = "in" THEN e.list[i]
    ELSE IF e.op = "like" THEN Wildcard(e.value)
    ELSE e.value

\* The compiled fragments: one per predicate whose operator is among `ops`.
Clauses(prefix, flat, ops) ==
    LET known == {n \in DOMAIN flat : flat[n].op \in ops}
        RECURSIVE Build(_)
        Build(n) ==
            IF n > Len(flat) THEN <<>>
            ELSE (IF n \in known
                  THEN <<[column |-> flat[n].column, op |-> flat[n].op,
                          names |-> Placeholders(prefix, flat[n], n, ops)]>>
                  ELSE <<>>) \o Build(n + 1)
    IN Build(1)

\* The entries one predicate puts into the parameter map.
PredicateParams(prefix, e, counter, ops) ==
    LET names == Placeholders(prefix, e, counter, ops)
    IN [nm \in Range(names) |->
           BoundValue(e, CHOOSE i \in DOMAIN names :
                             /\ names[i] = nm
                             /\ \A j \in DOMAIN names : j > i => names[j] # nm)]

\* The parameter map filled beside the fragments: a later assignment to a
\* name replaces an earlier one.
RECURSIVE ParamsFrom(_, _, _, _)
ParamsFrom(prefix, flat, ops, n) ==
    IF n > Len(flat) THEN NoParams
    ELSE Merge(PredicateParams(prefix, flat[n], n, ops),
               ParamsFrom(prefix, flat, ops, n + 1))

FilterParams(prefix, flat, ops) == ParamsFrom(prefix, flat, ops, 1)

\* Does a stored row satisfy one compiled fragment under the bound values?
\* A comparison with NULL on either side is never true.
\* A one-character value contains v exactly when it is v.
Satisfies(row, clause, params) ==
    LET v == Cell(row, clause.column)
        p == params[clause.names[1]]
    IN CASE clause.op = "eq" -> v # Null /\ p # Null /\ v = p
         [] clause.op = "like" -> v # Null /\ p[2] # Null /\ v = p[2]
         [] clause.op = "gt" -> v # Null /\ p # Null /\ v > p
         [] clause.op = "lt" -> v # Null /\ p # Null /\ v < p
         [] clause.op = "gte" -> v # Null /\ p # Null /\ v >= p
         [] clause.op = "lte" -> v # Null /\ p # Null /\ v <= p
         [] clause.op = "in" ->
              v # Null /\ \E i \in DOMAIN clause.names : v = params[clause.names[i]]
         [] clause.op = "between" ->
              /\ v # Null /\ params[clause.names[1]] # Null /\ params[clause.names[2]] # Null
              /\ params[clause.names[1]] <= v /\ v <= params[clause.names[2]]

\* ORDER BY col: the rows in ascending order of col, ties in stored order.
RECURSIVE SortBy(_, _)
SortBy(rows, col) ==
    IF rows = <<>> THEN <<>>
    ELSE LET least == CHOOSE i \in DOMAIN rows :
                          \A j \in DOMAIN rows :
                              \/ rows[i][col] < rows[j][col]
                              \/ (rows[i][col] = rows[j][col] /\ i <= j)
             rest == [j \in 1 .. Len(rows) - 1 |->
                         IF j < least THEN rows[j] ELSE rows[j + 1]]
         IN <<rows[least]>> \o SortBy(rest, col)

\* What the engine makes of the fragments: it raises on an unknown table or
\* column and on an empty IN list.
ClausesAccepted(tbl, clauses) ==
    /\ Resolve(tbl) # ""
    /\ \A k \in DOMAIN clauses :
         /\ clauses[k].column \in KnownColumns
         /\ clauses[k].names # <<>>

ClauseColumns(clauses) == {clauses[k].column : k \in DOMAIN clauses}

FilterColumns == {"City", "Nope"}

\* The stored rows the searches run over.
SearchTables == {<<[City |-> 2, Country |-> 1], [City |-> 1, Country |-> 2]>>}

SearchLimits == {0, 1, AdvancedSearchMax + 1}

\* The filters objects with at most one operator entry.
SmallFilters == {f \in Filters : SumLen(f, 1) <= 1}

\* Every filters object against the known table, and the small ones against
\* every table name, sort column and limit.
SearchArgs ==
    [tool : {"advanced_search"}, table_name : {"Customers"}, json_ok : {TRUE},
     filters : Filters, sort_by : {""}, limit : {1}]
    \cup [tool : {"advanced_search"}, table_name : SplicedTables, json_ok : {TRUE},
          filters : SmallFilters, sort_by : {"", "City", "Nope"},
          limit : SearchLimits]
    \cup [tool : {"advanced_search"}, table_name : {"Customers"}, json_ok : {FALSE},
          filters : {<<>>}, sort_by : {""}, limit : {1}]
    \cup [tool : {"range_search"}, table_name : {"Customers"}, json_ok : {TRUE},
          column : {"City"}, min_value : {1}, max_value : {2},
          additional_filters : Filters, limit : {1}]
    \cup [tool : {"range_search"}, table_name : SplicedTables, json_ok : {TRUE},
          column : FilterColumns, min_value : Values, max_value : Values,
          additional_filters : SmallFilters, limit : SearchLimits]
    \cup [tool : {"range_search"}, table_name : {"Customers"}, json_ok : {FALSE},
          column : {"City"}, min_value : {1}, max_value : {1},
          additional_filters : {<<>>}, limit : {1}]

InitSearch == InitCall(SearchArgs, SearchTables)

\* The rows a SELECT over the fragments returns, in stored order.
Selected(rows, clauses, params) ==
    SelectSeq(rows, LAMBDA r : \A k \in DOMAIN clauses : Satisfies(r, clauses[k], params))

AdvancedLimit(limit) == Clamp(limit, AdvancedSearchMax)
RangeLimit(limit) == Clamp(limit, RangeSearchMax)

\* advanced_search (server.py:454-514).
AdvancedSearch ==
    /\ pc = "run"
    /\ args.tool = "advanced_search"
    /\ IF ~args.json_ok
       THEN /\ result' = Failed(args.tool)
            /\ UNCHANGED <<sent, loc>>
       ELSE LET limit == AdvancedLimit(args.limit)
                flat == FlatPredicates(args.filters, 1)
                where_clauses == Clauses("param", flat, KnownOps)
                params == FilterParams("param", flat, KnownOps)
                sorted == args.sort_by # ""
                q == Stmt("SELECT", args.table_name, ClauseColumns(where_clauses), {},
                          {args.table_name} \cup ClauseColumns(where_clauses)
                              \cup (IF sorted THEN {args.sort_by} ELSE {}),
                          {}, <<limit>>, params)
            IN \E ok \in {FALSE, /\ ClausesAccepted(args.table_name, where_clauses)
                                 /\ (sorted => args.sort_by \in KnownColumns)} :
                 /\ sent' = Send(sent, q, ok)
                 /\ loc' = [limit |-> limit, where_clauses |-> where_clauses]
                 /\ result' =
                      IF ~ok THEN Failed(args.tool)
                      ELSE LET rows == Selected(table, where_clauses, params)
                               data == Slice(IF sorted THEN SortBy(rows, args.sort_by)
                                             ELSE rows, 0, limit)
                           IN Json([table |-> args.table_name, found |-> Len(data),
                                    data |-> data])
    /\ pc' = "done"
    /\ UNCHANGED <<agentVars, engineVars, task, args, table>>

\* range_search (server.py:529-570): BETWEEN over two bound endpoints; of the
\* additional filters only like and eq are compiled.
RangeOps == {"like", "eq"}

RangeSearch ==
    /\ pc = "run"
    /\ args.tool = "range_search"
    /\ IF ~args.json_ok
       THEN /\ result' = Failed(args.tool)
            /\ UNCHANGED <<sent, loc>>
       ELSE LET limit == RangeLimit(args.limit)
                flat == FlatPredicates(args.additional_filters, 1)
                between == [column |-> args.column, op |-> "between",
                            names |-> <<"min_val", "max_val">>]
                where_clauses == <<between>> \o Clauses("add_param", flat, RangeOps)
                params == Merge([n \in {"min_val", "max_val"} |->
                                    IF n = "min_val" THEN args.min_value
                                    ELSE args.max_value],
                                FilterParams("add_param", flat, RangeOps))
                q == Stmt("SELECT", args.table_name, ClauseColumns(where_clauses), {},
                          {args.table_name} \cup ClauseColumns(where_clauses),
                          {}, <<limit>>, params)
            IN \E ok \in {FALSE, ClausesAccepted(args.table_name, where_clauses)} :
                 /\ sent' = Send(sent, q, ok)
                 /\ loc' = [limit |-> limit, where_clauses |-> where_clauses]
                 /\ result' =
                      IF ~ok THEN Failed(args.tool)
                      ELSE LET rows == Selected(table, where_clauses, params)
                               data == Slice(SortBy(rows, args.column), 0, limit)
                           IN Json([table |-> args.table_name, found |-> Len(data),
                                    data |-> data])
    /\ pc' = "done"
    /\ UNCHANGED <<agentVars, engineVars, task, args, table>>

NextSearch ==
    \/ CallStart
    \/ AdvancedSearch
    \/ RangeSearch

SpecSearch == InitSearch /\ [][NextSearch]_vars

\* The fragments compiled for the operator entry `op` of `column`.
ClausesOf(clauses, column, op) ==
    {k \in DOMAIN clauses : clauses[k].column = column /\ clauses[k].op = op}

\* The placeholder names of all fragments but number k.
NamesBeside(clauses, k) ==
    UNION {Range(clauses[j].names) : j \in DOMAIN clauses \ {k}}

\* C11: for every `in` entry of the filters with an N-element list,
\* advanced_search emits exactly one IN fragment; it holds N pairwise
\* distinct placeholders, the i-th one bound to the i-th list element, and
\* these N are the only parameters bound for that predicate.
C11_InListPlaceholders ==
    (args.tool = "advanced_search" /\ pc = "done" /\ sent # <<>>) =>
        \A f \in DOMAIN args.filters : \A m \in DOMAIN args.filters[f].ops :
            LET e == args.filters[f].ops[m]
                cs == ClausesOf(loc.where_clauses, args.filters[f].column, "in")
                params == sent[1].stmt.params
            IN e.op = "in" =>
                 /\ Cardinality(cs) = 1
                 /\ \A k \in cs :
                      LET names == loc.where_clauses[k].names
                      IN /\ Len(names) = Len(e.list)
                         /\ \A i, j \in DOMAIN names : i # j => names[i] # names[j]
                         /\ \A i \in DOMAIN names :
                              /\ names[i] \in DOMAIN params
                              /\ params[names[i]] = e.list[i]
                         /\ Cardinality(DOMAIN params \ NamesBeside(loc.where_clauses, k))
                              = Len(e.list)

\* An IN list of two elements was compiled behind another predicate and the
\* statement ran.
C11_Witness ==
    /\ args.tool = "advanced_search"
    /\ pc = "done"
    /\ result.kind = "json"
    /\ Len(loc.where_clauses) = 2
    /\ loc.where_clauses[2].op = "in"
    /\ loc.where_clauses[2].names = <<"param2_0", "param2_1">>
    /\ sent[1].stmt.params["param2_1"] = 2

\* The operator entries of a filters object that name one of the seven
\* operators, as pairs of a column and an operator.
RecognizedEntries ==
    UNION {{<<args.filters[f].column, args.filters[f].ops[m].op>> :
               m \in {x \in DOMAIN args.filters[f].ops :
                         args.filters[f].ops[x].op \in
                             {"eq", "like", "gt", "lt", "gte", "lte", "in"}}} :
              f \in DOMAIN args.filters}

\* C16: advanced_search compiles one fragment per operator entry that names
\* one of eq, like, gt, lt, gte, lte, in and none for any other entry, and
\* binds parameters for the fragments only; a filters object without such an
\* entry gives no fragment (the always-true predicate: every stored row
\* qualifies) and an empty parameter map; with well-formed filters the call
\* fails only when the engine refuses the statement.
C16_UnrecognizedIgnored ==
    (args.tool = "advanced_search" /\ pc = "done" /\ args.json_ok /\ sent # <<>>) =>
        LET clauses == loc.where_clauses
            params == sent[1].stmt.params
        IN /\ {<<clauses[k].column, clauses[k].op>> : k \in DOMAIN clauses}
                = RecognizedEntries
           /\ Len(clauses) = Cardinality(RecognizedEntries)
           /\ DOMAIN params = UNION {Range(clauses[k].names) : k \in DOMAIN clauses}
           /\ RecognizedEntries = {} =>
                 /\ clauses = <<>>
                 /\ DOMAIN params = {}
                 /\ result.kind = "json" =>
                       result.body.found = IF Len(table) < loc.limit THEN Len(table)
                                           ELSE loc.limit
           /\ result.kind = "text" => ~sent[1].ok

\* An unknown operator stood next to a known one: one fragment, one
\* parameter, and the call answered.
C16_Witness ==
    /\ args.tool = "advanced_search"
    /\ pc = "done"
    /\ result.kind = "json"
    /\ Len(args.filters) = 1
    /\ Len(args.filters[1].ops) = 2
    /\ args.filters[1].ops[1].op = "ne"
    /\ args.filters[1].ops[2].op = "eq"
    /\ Len(loc.where_clauses) = 1
    /\ DOMAIN sent[1].stmt.params = {"param2"}

\* Does the value v meet the operator entry e of a filters object?
Meets(v, e) ==
    CASE e.op = "eq" -> v = e.value
      [] e.op = "like" -> v = e.value
      [] e.op = "gt" -> v > e.value
      [] e.op = "lt" -> v < e.value
      [] e.op = "gte" -> v >= e.value
      [] e.op = "lte" -> v <= e.value
      [] e.op = "in" -> \E i \in DOMAIN e.list : v = e.list[i]
      [] OTHER -> TRUE

\* C20: every row range_search returns lies between min_value and max_value
\* in the range column and meets every condition of additional_filters on a
\* column of the table, whichever of eq, like, gt, lt, gte, lte, in it uses.
C20_RangeAndSecondary ==
    (args.tool = "range_search" /\ pc = "done" /\ result.kind = "json") =>
        \A k \in DOMAIN result.body.data :
            LET row == result.body.data[k]
            IN /\ args.min_value <= row[args.column]
               /\ row[args.column] <= args.max_value
               /\ \A f \in DOMAIN args.additional_filters :
                     LET entry == args.additional_filters[f]
                     IN entry.column \in KnownColumns =>
                            \A m \in DOMAIN entry.ops : Meets(row[entry.column], entry.ops[m])

(***************************************************************************)
(* safe_insert_record, and a search for the row it stored                  *)
(***************************************************************************)

\* record_data parsed: an object over some of these columns, with values or
\* nulls; or a JSON array; or text that is not JSON.
InsertColumns == KnownColumns \cup {"Nope"}
InsertRecords == UNION {[S -> {1, Null}] : S \in SUBSET InsertColumns}

InsertArgs ==
    [tool : {"safe_insert_record"}, table_name : TableNames, payload : {"object"},
     record : InsertRecords, validate_only : BOOLEAN]
    \cup [tool : {"safe_insert_record"}, table_name : {"Customers", "Ghost"},
          payload : {"array", "malformed"}, record : {<<>>}, validate_only : BOOLEAN]

InitInsert == InitCall(InsertArgs, BatchTables)

\* The rows of INFORMATION_SCHEMA.COLUMNS WHERE TABLE_NAME = '{table_name}':
\* the name is compared as given, a schema prefix is not split off.
SchemaRows(table_name) == IF table_name \in KnownTables THEN KnownColumns ELSE {}

\* set(data.keys()) - valid_columns
InvalidColumns(record, valid_columns) == DOMAIN record \ valid_columns

\* Where the call goes after the schema lookup (server.py:597-616).
AfterSchemaUnchecked(ok, payload, record, schema_rows, validate_only) ==
    IF ~ok THEN "failed"
    ELSE IF schema_rows = {} THEN "not_found"
    ELSE IF payload # "object" THEN "failed"
    ELSE IF validate_only THEN "validated"
    ELSE "insert"

AfterSchema(ok, payload, record, schema_rows, validate_only) ==
    IF ~ok THEN "failed"
    ELSE IF schema_rows = {} THEN "not_found"
    ELSE IF payload # "object" THEN "failed"
    ELSE IF InvalidColumns(record, schema_rows) # {} THEN "invalid"
    ELSE IF validate_only THEN "validated"
    ELSE "insert"

\* json.loads, the schema lookup and the validation (server.py:586-616).
InsertValidate ==
    /\ pc = "run"
    /\ args.tool = "safe_insert_record"
    /\ IF args.payload = "malformed"
       THEN /\ result' = Failed(args.tool)
            /\ pc' = "done"
            /\ UNCHANGED <<sent, loc>>
       ELSE LET q == Stmt("SELECT", "INFORMATION_SCHEMA.COLUMNS", {}, {}, {},
                          {args.table_name}, <<>>, NoParams)
                schema_rows == SchemaRows(args.table_name)
            IN \E ok \in BOOLEAN :
                 LET next == AfterSchema(ok, args.payload, args.record, schema_rows,
                                         args.validate_only)
                 IN /\ sent' = Send(sent, q, ok)
                    /\ loc' = [pending |-> table]
                    /\ pc' = IF next = "insert" THEN "insert" ELSE "done"
                    /\ result' =
                         CASE next = "failed" -> Failed(args.tool)
                           [] next = "not_found" -> Text("Table not found")
                           [] next = "invalid" ->
                                [kind |-> "text", label |-> "Invalid columns",
                                 columns |-> InvalidColumns(args.record, schema_rows)]
                           [] next = "validated" ->
                                Json([validation |-> "passed", table |-> args.table_name,
                                      columns_to_insert |-> DOMAIN args.record,
                                      would_insert |-> args.record])
                           [] next = "insert" -> result
    /\ UNCHANGED <<agentVars, engineVars, task, args, table>>

\* The INSERT built from the record's keys (server.py:619-627).
InsertExecute ==
    /\ pc = "insert"
    /\ args.tool = "safe_insert_record"
    /\ LET columns == DOMAIN args.record
           q == InsertStmt(args.table_name, columns, args.record)
       IN \E ok \in {FALSE, InsertAccepted(args.table_name, columns, args.record)} :
            /\ sent' = Send(sent, q, ok)
            /\ IF ok
               THEN /\ loc' = [pending |-> Append(table, InsertedRow(columns, args.record))]
                    /\ pc' = "commit"
                    /\ result' = result
               ELSE /\ loc' = loc
                    /\ pc' = "done"
                    /\ result' = Failed(args.tool)
    /\ UNCHANGED <<agentVars, engineVars, task, args, table>>

\* connection.commit() and the report (server.py:628-635).
InsertCommit ==
    /\ pc = "commit"
    /\ args.tool = "safe_insert_record"
    /\ \E ok \in BOOLEAN :
         /\ sent' = Send(sent, Commit, ok)
         /\ table' = IF ok THEN loc.pending ELSE table
         /\ result' = IF ok
                      THEN Json([operation |-> "insert", table |-> args.table_name,
                                 rows_affected |-> 1, inserted_data |-> args.record])
                      ELSE Failed(args.tool)
    /\ pc' = "done"
    /\ UNCHANGED <<agentVars, engineVars, task, args, loc>>

\* The filters object {col: {"eq": value}} over the fields of a record, in
\* some order of its keys.
EqFilters(record) ==
    LET order == CHOOSE o \in [1 .. Cardinality(DOMAIN record) -> DOMAIN record] :
                     Range(o) = DOMAIN record
    IN [k \in DOMAIN order |->
           [column |-> order[k], kind |-> "object",
            ops |-> <<[op |-> "eq", value |-> record[order[k]], list |-> <<>>]>>]]

\* The next call of the same client: advanced_search for the record just
\* inserted, with limit 1.
SearchInserted ==
    /\ pc = "done"
    /\ args.tool = "safe_insert_record"
    /\ result.kind = "json"
    /\ "operation" \in DOMAIN result.body
    /\ args' = [tool |-> "advanced_search", table_name |-> args.table_name,
                json_ok |-> TRUE, filters |-> EqFilters(args.record), sort_by |-> "",
                limit |-> 1, inserted |-> args.record]
    /\ pc' = "ready"
    /\ sent' = <<>>
    /\ loc' = <<>>
    /\ result' = <<>>
    /\ UNCHANGED <<agentVars, engineVars, task, table>>

NextInsert ==
    \/ CallStart
    \/ InsertValidate
    \/ InsertExecute
    \/ InsertCommit
    \/ SearchInserted
    \/ AdvancedSearch

SpecInsert == InitInsert /\ [][NextInsert]_vars

\* C12: when advanced_search, asked with limit 1 for the fields of a record
\* that safe_insert_record has just stored, answers, it returns one row and
\* the row holds the submitted value in every submitted column.
C12_RoundTrip ==
    (pc = "done" /\ args.tool = "advanced_search" /\ "inserted" \in DOMAIN args
        /\ result.kind = "json") =>
        /\ Len(result.body.data) = 1
        /\ \A c \in DOMAIN args.inserted :
              Cell(result.body.data[1], c) = args.inserted[c]

\* The call is safe_insert_record with a record naming an unknown column.
UnknownColumnNamed ==
    /\ args.tool = "safe_insert_record"
    /\ args.payload = "object"
    /\ DOMAIN args.record \ KnownColumns # {}

\* C15: a record of safe_insert_record that names a column the target table
\* does not have never leads to an INSERT or a commit and never changes the
\* stored rows, with validate_only set or not; once the catalog has returned
\* the table's columns the call ends with the text listing exactly the
\* unknown columns.
C15_UnknownColumnsRejected ==
    /\ [][UnknownColumnNamed => table' = table]_vars
    /\ [](UnknownColumnNamed =>
           /\ Sent("INSERT") = {}
           /\ Sent("COMMIT") = {}
           /\ (pc = "done" /\ sent # <<>> /\ sent[1].ok
                  /\ args.table_name \in KnownTables) =>
                 /\ result.kind = "text"
                 /\ result.label = "Invalid columns"
                 /\ result.columns = DOMAIN args.record \ KnownColumns)

\* A record with one known and one unknown column was rejected although
\* validate_only was not set.
C15_Witness ==
    /\ args.tool = "safe_insert_record"
    /\ ~args.validate_only
    /\ args.payload = "object"
    /\ DOMAIN args.record = {"City", "Nope"}
    /\ pc = "done"
    /\ result.kind = "text"
    /\ result.label = "Invalid columns"
    /\ result.columns = {"Nope"}

(***************************************************************************)
(* data_profiling                                                          *)
(***************************************************************************)

\* The table's columns in ORDINAL_POSITION order, and their types.
ColumnOrder == <<"City", "Country">>
DataType(c) == IF c = "City" THEN "nvarchar" ELSE "int"

\* columns parsed: an array of names, or text that is not JSON.
ProfilingArgs ==
    [tool : {"data_profiling"}, table_name : TableNames, payload : {"array"},
     columns : SUBSET InsertColumns]
    \cup [tool : {"data_profiling"}, table_name : {"Customers"},
          payload : {"malformed"}, columns : {{}}]

InitProfiling == InitCall(ProfilingArgs, BatchTables)

\* "if target_columns: schema_rows = [row for row in schema_rows if
\* row.COLUMN_NAME in target_columns]" (server.py:1122-1123).
TargetRowsUnfiltered(schema_rows, target_columns) == schema_rows
TargetRows(schema_rows, target_columns) ==
    IF target_columns = {} THEN schema_rows
    ELSE SelectSeq(schema_rows, LAMBDA c : c \in target_columns)

\* The statistics statement of a column, by the branch its type selects
\* (server.py:1132-1167), and the top-values statement (server.py:1173-1179).
StatsKind(data_type) ==
    IF data_type \in {"int", "bigint", "decimal", "numeric", "float", "real", "money"}
    THEN "numeric"
    ELSE IF data_type \in {"varchar", "nvarchar", "char", "nchar", "text", "ntext"}
    THEN "string"
    ELSE "generic"

StatsStmt(tbl, col) == Stmt("SELECT", tbl, {}, {}, {tbl, col}, {}, <<>>, NoParams)
TopValuesStmt(tbl, col) == Stmt("SELECT", tbl, {col}, {}, {tbl, col}, {}, <<>>, NoParams)

\* The statistics row of a column over the stored rows.
Statistics(rows, col) ==
    LET non_null == Cardinality({k \in DOMAIN rows : Cell(rows[k], col) # Null})
    IN [kind |-> StatsKind(DataType(col)), total_count |-> Len(rows),
        non_null_count |-> non_null, null_count |-> Len(rows) - non_null,
        distinct_count |-> Cardinality({Cell(rows[k], col) : k \in DOMAIN rows} \ {Null})]

\* json.loads, the schema lookup and the column filter (server.py:1104-1125).
ProfileSchema ==
    /\ pc = "run"
    /\ args.tool = "data_profiling"
    /\ IF args.payload = "malformed"
       THEN /\ result' = Failed(args.tool)
            /\ pc' = "done"
            /\ UNCHANGED <<sent, loc>>
       ELSE LET q == Stmt("SELECT", "INFORMATION_SCHEMA.COLUMNS", {}, {}, {},
                          {args.table_name}, <<>>, NoParams)
                schema_rows == IF SchemaRows(args.table_name) = {} THEN <<>>
                               ELSE ColumnOrder
            IN \E ok \in BOOLEAN :
                 /\ sent' = Send(sent, q, ok)
                 /\ IF ~ok
                    THEN /\ result' = Failed(args.tool)
                         /\ pc' = "done"
                         /\ loc' = loc
                    ELSE IF schema_rows = <<>>
                    THEN /\ result' = Text("Table not found")
                         /\ pc' = "done"
                         /\ loc' = loc
                    ELSE /\ result' = result
                         /\ pc' = "profile"
                         /\ loc' = [schema_rows |-> TargetRows(schema_rows, args.columns),
                                    i |-> 1, phase |-> "stats", profile_results |-> <<>>]
    /\ UNCHANGED <<agentVars, engineVars, task, args, table>>

\* One statement of the loop body (server.py:1127-1189): the statistics
\* query of the column, then its top-values query and the appended entry.
ProfileColumn ==
    /\ pc = "profile"
    /\ args.tool = "data_profiling"
    /\ loc.i <= Len(loc.schema_rows)
    /\ LET col_name == loc.schema_rows[loc.i]
           q == IF loc.phase = "stats" THEN StatsStmt(args.table_name, col_name)
                ELSE TopValuesStmt(args.table_name, col_name)
       IN \E ok \in BOOLEAN :
            /\ sent' = Send(sent, q, ok)
            /\ IF ~ok
               THEN /\ result' = Failed(args.tool)
                    /\ pc' = "done"
                    /\ loc' = loc
               ELSE /\ result' = result
                    /\ pc' = pc
                    /\ loc' = IF loc.phase = "stats"
                              THEN [loc EXCEPT !.phase = "top_values"]
                              ELSE [loc EXCEPT
                                      !.phase = "stats", !.i = @ + 1,
                                      !.profile_results =
                                          Append(@, [column_name |-> col_name,
                                                     data_type |-> DataType(col_name),
                                                     statistics |-> Statistics(table, col_name)])]
    /\ UNCHANGED <<agentVars, engineVars, task, args, table>>

\* The report (server.py:1191-1194).
ProfileReturn ==
    /\ pc = "profile"
    /\ args.tool = "data_profiling"
    /\ loc.i > Len(loc.schema_rows)
    /\ result' = Json([table |-> args.table_name,
                       profiling_results |-> loc.profile_results])
    /\ pc' = "done"
    /\ UNCHANGED <<agentVars, engineVars, task, args, loc, table, sent>>

NextProfiling ==
    \/ CallStart
    \/ ProfileSchema
    \/ ProfileColumn
    \/ ProfileReturn

SpecProfiling == InitProfiling /\ [][NextProfiling]_vars

\* The columns of the entries of a profiling report, in order.
ProfiledColumns(results) == [k \in DOMAIN results |-> results[k].column_name]

HavingDicts ==
    {h \in UNION {[1 .. n -> [condition : {"COUNT(*)", "MAX(City)"}, value : Values]] :
                     n \in 0 .. 2} :
        DistinctBy(h, LAMBDA e : e.condition)}

AggregationArgs ==
    [tool : {"custom_aggregation"}, table_name : SplicedTables, json_ok : {TRUE},
     group_cols : {<<>>, <<"City">>}, agg_funcs : {{}, {"n"}},
     where_dict : ColumnDicts, having_dict : HavingDicts]
    \cup [tool : {"custom_aggregation"}, table_name : {"Customers"}, json_ok : {FALSE},
          group_cols : {<<>>}, agg_funcs : {{}}, where_dict : {<<>>},
          having_dict : {<<>>}]

InitAggregation == InitCall(AggregationArgs, SearchTables)

\* having_params after the first n conditions: each new name is
\* f"having_{len(having_params)}" (server.py:898-901).
RECURSIVE HavingParams(_, _)
HavingParams(having, n) ==
    IF n = 0 THEN NoParams
    ELSE LET before == HavingParams(having, n - 1)
             param_name == "having_" \o ToString(Cardinality(DOMAIN before))
         IN Merge(before, [x \in {param_name} |-> having[n].value])

\* The value an aggregate expression takes over a group of rows.
Aggregate(condition, group) ==
    IF condition = "COUNT(*)" THEN Len(group)
    ELSE IF group = <<>> THEN Null
    ELSE LET cities == {group[k].City : k \in DOMAIN group}
         IN CHOOSE m \in cities : \A x \in cities : x <= m

\* The rows of the answer: one per group (the whole selection when there is
\* no grouping column) that passes every HAVING
\* condition, holding the grouping column and the aliases (each alias here
\* stands for COUNT(*)), in ascending order of the grouping column.
Groups(rows, group_cols, agg_funcs, having) ==
    LET grouped == group_cols # <<>>
        keys == IF grouped THEN {rows[k].City : k \in DOMAIN rows} ELSE {0}
        groupOf(v) == IF grouped THEN SelectSeq(rows, LAMBDA r : r.City = v) ELSE rows
        kept == {v \in keys :
                    \A k \in DOMAIN having :
                        LET a == Aggregate(having[k].condition, groupOf(v))
                        IN a # Null /\ a > having[k].value}
        answer(v) == [c \in Range(group_cols) \cup agg_funcs |->
                         IF c \in agg_funcs THEN Len(groupOf(v)) ELSE v]
    IN [k \in 1 .. Cardinality(kept) |->
           answer(CHOOSE x \in kept : Cardinality({y \in kept : y < x}) = k - 1)]

\* custom_aggregation (server.py:864-934): the ORDER BY term is the first
\* grouping column or else the first alias, and taking it raises when there
\* is neither.
CustomAggregation ==
    /\ pc = "run"
    /\ args.tool = "custom_aggregation"
    /\ IF ~args.json_ok \/ (args.group_cols = <<>> /\ args.agg_funcs = {})
       THEN /\ result' = Failed(args.tool)
            /\ UNCHANGED <<sent, loc>>
       ELSE LET where_params == ClauseParams("where", args.where_dict)
                having_params == HavingParams(args.having_dict, Len(args.having_dict))
                all_params == Merge(where_params, having_params)
                spliced == Range(args.group_cols) \cup args.agg_funcs
                               \cup DOMAIN args.where_dict
                               \cup {args.having_dict[k].condition :
                                        k \in DOMAIN args.having_dict}
                q == Stmt("SELECT", args.table_name, DOMAIN args.where_dict, {},
                          {args.table_name} \cup spliced, {}, <<>>, all_params)
            IN \E ok \in {FALSE, /\ Resolve(args.table_name) # ""
                                 /\ DOMAIN args.where_dict \subseteq KnownColumns} :
                 /\ sent' = Send(sent, q, ok)
                 /\ loc' = [where_params |-> where_params, having_params |-> having_params]
                 /\ result' =
                      IF ~ok THEN Failed(args.tool)
                      ELSE LET data == Groups(MatchingRows(table, args.where_dict),
                                              args.group_cols, args.agg_funcs, args.having_dict)
                           IN Json([result_count |-> Len(data), data |-> data])
    /\ pc' = "done"
    /\ UNCHANGED <<agentVars, engineVars, task, args, table>>

NextAggregation ==
    \/ CallStart
    \/ CustomAggregation

SpecAggregation == InitAggregation /\ [][NextAggregation]_vars

(***************************************************************************)
(* Any one tool call                                                       *)
(***************************************************************************)

Init == InitQuery \/ InitUpdate \/ InitBatch \/ InitBulk \/ InitSearch \/ InitInsert \/ InitProfiling
        \/ InitAggregation

Next == NextQuery \/ NextUpdate \/ NextBatch \/ NextBulk \/ NextSearch \/ NextInsert \/ NextProfiling
        \/ NextAggregation

Spec == Init /\ [][Next]_vars

\* y is x brought into 1 .. hi.
ClampedTo(x, y, hi) ==
    /\ 1 <= y /\ y <= hi
    /\ (x < 1 => y = 1)
    /\ (x > hi => y = hi)
    /\ (x >= 1 /\ x <= hi => y = x)

\* C10: the page statement of paginated_query fetches the requested page size
\* brought into 1..100 and skips (page - 1) times that many rows (page 1 of
\* 20 skips 0, page 3 of 20 skips 40); every other tool uses its limit or
\* batch size brought into 1..its own maximum.
C10_LimitsClamped ==
    /\ \A k \in DOMAIN sent :
         LET q == sent[k].stmt
         IN /\ (args.tool = "paginated_query" /\ k = 1) =>
                  /\ Len(q.numbers) = 2
                  /\ ClampedTo(args.page_size, q.numbers[2], 100)
                  /\ q.numbers[1] = (args.page - 1) * q.numbers[2]
                  /\ (args.page = 1 /\ args.page_size = 20) => q.numbers = <<0, 20>>
                  /\ (args.page = 3 /\ args.page_size = 20) => q.numbers = <<40, 20>>
            /\ args.tool = "get_sample_data" =>
                  ClampedTo(args.limit, q.numbers[1], 100)
            /\ args.tool \in {"search_customers", "search_products"} =>
                  ClampedTo(args.limit, q.params["limit"], 100)
            /\ args.tool = "get_customer_orders" =>
                  ClampedTo(args.limit, q.params["limit"], 200)
            /\ args.tool \in {"advanced_search", "range_search"} =>
                  ClampedTo(args.limit, q.numbers[1], 200)
    /\ (args.tool = "batch_insert_records" /\ pc \in {"chunk", "insert", "commit"}) =>
         /\ ClampedTo(args.batch_size, loc.batch_size, 1000)
         /\ \A k \in DOMAIN loc.attempts : loc.attempts[k].size <= loc.batch_size
    /\ (pc = "done" /\ result.kind = "json"
           /\ args.tool \in {"paginated_query", "batch_insert_records"}) =>
         IF args.tool = "paginated_query"
         THEN ClampedTo(args.page_size, result.body.pagination.page_size, 100)
         ELSE ClampedTo(args.batch_size, result.body.batch_size_used, 1000)

\* Page 3 was asked for with a page size above the maximum: 100 rows are
\* fetched behind an offset of 200.
C10_Witness ==
    /\ args.tool = "paginated_query"
    /\ args.page = 3
    /\ args.page_size = 101
    /\ pc = "done"
    /\ result.kind = "json"
    /\ sent[1].stmt.numbers = <<200, 100>>

\* The names the schema knows: its tables, bare or qualified, and their columns.
KnownIdentifiers == {n \in TableNames : Resolve(n) # ""} \cup KnownColumns

\* The tools that splice a caller's table or column name into the text.
SplicingTools ==
    {"advanced_search", "range_search", "safe_update_record", "batch_insert_records",
     "bulk_update_records", "get_sample_data"}

\* C5: no statement of a tool that splices caller-supplied names holds a
\* table or column name outside the schema's known identifiers (a request
\* naming one is rejected before anything is sent).
C5_IdentifiersValidated ==
    args.tool \in SplicingTools =>
        \A k \in DOMAIN sent : sent[k].stmt.idents \subseteq KnownIdentifiers

\* C6: no statement sent to the engine holds a caller-supplied value
\* between quotes in its text; values travel in the parameter map only.
C6_ValuesBound ==
    \A k \in DOMAIN sent : sent[k].stmt.literals = {}

\* C14: a finished call has returned either a JSON document or a plain
\* string that begins with the label of the tool that was called.
C14_PayloadShape ==
    pc = "done" =>
        \/ result.kind = "json"
        \/ result.kind = "text" /\ result.label = ErrorLabel(args.tool)

\* The number of values a filters object asks to bind: one per entry whose
\* operator is among `ops`, or one per list element for `in`.
BoundCount(filters, ops) ==
    Cardinality(UNION {UNION {{<<f, m, i>> :
                                  i \in 1 .. (IF filters[f].ops[m].op \notin ops THEN 0
                                              ELSE IF filters[f].ops[m].op = "in"
                                              THEN Len(filters[f].ops[m].list)
                                              ELSE 1)} :
                                m \in DOMAIN filters[f].ops} :
                         f \in DOMAIN filters})

\* C17: the parameter map of every statement compiled from a filter, where,
\* set or having payload holds one entry per value the payload asks to bind:
\* no two values were bound under one placeholder name.
C17_NoPlaceholderCollision ==
    \A k \in DOMAIN sent :
        LET q == sent[k].stmt
            n == Cardinality(DOMAIN q.params)
        IN CASE args.tool = "advanced_search" ->
                  n = BoundCount(args.filters,
                                 {"eq", "like", "gt", "lt", "gte", "lte", "in"})
             [] args.tool = "range_search" ->
                  n = 2 + BoundCount(args.additional_filters, {"eq", "like"})
             [] args.tool = "safe_update_record" ->
                  /\ q.op = "SELECT" => n = Cardinality(DOMAIN args.where_conditions)
                  /\ q.op = "UPDATE" => n = Cardinality(DOMAIN args.where_conditions)
                                            + Cardinality(DOMAIN args.update_data)
             [] args.tool = "bulk_update_records" ->
                  q.op = "UPDATE" => n = Cardinality(q.where) + Cardinality(q.set)
             [] args.tool = "custom_aggregation" ->
                  n = Cardinality(DOMAIN args.where_dict) + Len(args.having_dict)
             [] OTHER -> TRUE

\* Two predicates, one of them an IN list of two elements, were compiled
\* into three parameters and the statement ran.
C17_Witness ==
    /\ args.tool = "advanced_search"
    /\ pc = "done"
    /\ result.kind = "json"
    /\ Len(loc.where_clauses) = 2
    /\ DOMAIN sent[1].stmt.params = {"param1", "param2_0", "param2_1"}

\* C24: no UPDATE with an empty WHERE (or SET) clause is ever executed by
\* safe_update_record or bulk_update_records, and a call that names no where
\* conditions (for a bulk call: whose rules all lack where or set entries)
\* leaves every stored row as it was.
C24_NoUnfilteredUpdate ==
    /\ [](\A j \in Sent("UPDATE") :
            sent[j].ok => (sent[j].stmt.where # {} /\ sent[j].stmt.set # {}))
    /\ [][(\/ /\ args.tool = "safe_update_record"
              /\ DOMAIN args.where_conditions = {}
           \/ /\ args.tool = "bulk_update_records"
              /\ \A k \in DOMAIN args.rules : ~Executable(args.rules[k]))
              => table' = table]_vars

\* safe_update_record was called with an empty where object and values to
\* set: the preview statement was refused and the call ended in its error
\* string with the rows untouched.
C24_Witness ==
    /\ args.tool = "safe_update_record"
    /\ pc = "done"
    /\ args.json_ok
    /\ DOMAIN args.where_conditions = {}
    /\ DOMAIN args.update_data # {}
    /\ table # <<>>
    /\ Len(sent) = 1
    /\ ~sent[1].ok
    /\ result = Failed("safe_update_record")

\* C25: the OFFSET of every page statement paginated_query sends is >= 0.
C25_OffsetNonNegative ==
    args.tool = "paginated_query" =>
        \A k \in DOMAIN sent :
            Len(sent[k].stmt.numbers) = 2 => sent[k].stmt.numbers[1] >= 0

\* C26: in the response of paginated_query has_next_page tells whether the
\* query has a record behind the current page, and total_pages, when the
\* total was counted, is the total divided by the page size, rounded up.
C26_HasNextPage ==
    (args.tool = "paginated_query" /\ pc = "done" /\ result.kind = "json") =>
        /\ result.body.pagination.has_next_page
             <=> (Len(table) > loc.offset + loc.page_size)
        /\ result.body.total # <<>> =>
             /\ result.body.total.total_pages * loc.page_size >= Len(table)
             /\ (result.body.total.total_pages - 1) * loc.page_size < Len(table)
                   \/ Len(table) = 0

\* C27: the results list of a bulk_update_records report has one entry per
\* submitted rule, in rule order, so its length equals rules_processed.
C27_OneResultPerRule ==
    (args.tool = "bulk_update_records" /\ pc = "done" /\ result.kind = "json") =>
        /\ Len(result.body.results) = result.body.rules_processed
        /\ \A k \in DOMAIN result.body.results : result.body.results[k].rule = k

(***************************************************************************)
(* HistoryManager (src/src/history_manager.py)                             *)
(*                                                                         *)
(* A message is its position in the history handed in, its role and the    *)
(* length of str(msg.content); a text is its length.                       *)
(***************************************************************************)

\* The tool server is not part of the agent's process.
ServerIdle ==
    /\ local_db = FALSE
    /\ engine = None
    /\ built = 0
    /\ tokens = 0
    /\ task = <<>>
    /\ IdleCall

\* Bounds of the histories tried and the lengths of their messages.
MaxHistory == 4
MaxKeep == 2
CharCounts == {1, 400}

\* The system prompt comes first, then user and assistant turns alternate.
RoleAt(i) == IF i = 1 THEN "system" ELSE IF i % 2 = 0 THEN "user" ELSE "assistant"

Histories ==
    UNION {{[i \in 1 .. n |-> [id |-> i, role |-> RoleAt(i), chars |-> f[i]]] :
               f \in [1 .. n -> CharCounts]} : n \in 0 .. MaxHistory}

\* HistoryManager(max_messages, max_tokens, summarize_at), summary = None.
Managers ==
    [max_messages : 0 .. MaxKeep, max_tokens : {0, 100}, summarize_at : {2, 15},
     summary : {None}]

\* len(str(n)) of a count n >= 0.
RECURSIVE Digits(_)
Digits(n) == IF n < 10 THEN 1 ELSE 1 + Digits(n \div 10)

\* len(text) // 4.
estimate_tokens(text) == text \div 4

\* sum(len(str(msg.content)) for msg in history.messages).
RECURSIVE TotalChars(_, _)
TotalChars(history, k) ==
    IF k > Len(history) THEN 0 ELSE history[k].chars + TotalChars(history, k + 1)

get_history_size(history) ==
    [messages |-> Len(history),
     characters |-> TotalChars(history, 1),
     estimated_tokens |-> estimate_tokens(Digits(TotalChars(history, 1)))]

\* seq[start:] of a Python list.
SliceFrom(seq, start) ==
    LET n == Len(seq)
        from == IF start < 0 THEN Max(n + start, 0) ELSE Min(start, n)
    IN SubSeq(seq, from + 1, n)

\* The message add_system_message appends for a summary: the 37 characters
\* of its prefix, then the summary.
SummaryPrefix == 37
SummaryMessage(summary) == [id |-> 0, role |-> "system", chars |-> SummaryPrefix + summary]

trim_history(self, history) ==
    IF Len(history) <= self.max_messages + 1
    THEN history
    ELSE <<history[1]>>
         \o (IF self.summary # None THEN <<SummaryMessage(self.summary)>> ELSE <<>>)
         \o SliceFrom(history, -(self.max_messages))

should_trim(self, history) ==
    LET stats == get_history_size(history)
    IN \/ stats.messages > self.max_messages + 1
       \/ stats.estimated_tokens > self.max_tokens

\* len(f"Temas discutidos: {', '.join(topics)}"): the first 50 characters of
\* each of the last five user messages.
RECURSIVE JoinedLength(_, _)
JoinedLength(topics, k) ==
    IF k > Len(topics) THEN 0
    ELSE Min(topics[k].chars, 50) + (IF k > 1 THEN 2 ELSE 0) + JoinedLength(topics, k + 1)

create_summary(history) ==
    LET user_messages == SelectSeq(history, LAMBDA msg : msg.role = "user")
    IN 18 + JoinedLength(SliceFrom(user_messages, -5), 1)

\* manage_history: the summary it stores, and the history it returns.
SummaryAfterManage(self, history) ==
    IF should_trim(self, history) /\ Len(history) > self.summarize_at /\ self.summary = None
    THEN create_summary(history)
    ELSE self.summary

manage_history(self, history) ==
    IF should_trim(self, history)
    THEN trim_history([self EXCEPT !.summary = SummaryAfterManage(self, history)], history)
    ELSE history

InitHistory ==
    /\ ServerIdle
    /\ chat \in [self : Managers, history : Histories, call : {"none"}, out : {<<>>}]
    /\ db = <<>>
    /\ lock = <<>>
    /\ thread = <<>>
    /\ last_use = <<>>

TrimHistory ==
    /\ chat' = [chat EXCEPT !.call = "trim_history",
                            !.out = trim_history(chat.self, chat.history)]
    /\ UNCHANGED <<serverVars, db, lock, thread, last_use>>

GetHistorySize ==
    /\ chat' = [chat EXCEPT !.call = "get_history_size",
                            !.out = get_history_size(chat.history)]
    /\ UNCHANGED <<serverVars, db, lock, thread, last_use>>

ShouldTrim ==
    /\ chat' = [chat EXCEPT !.call = "should_trim",
                            !.out = should_trim(chat.self, chat.history)]
    /\ UNCHANGED <<serverVars, db, lock, thread, last_use>>

\* "history = history_manager.manage_history(history)" (main.py:163): the
\* caller goes on with the history it got back.
ManageHistory ==
    /\ Len(chat.history) <= MaxHistory
    /\ chat' = [chat EXCEPT !.call = "manage_history",
                            !.self.summary = SummaryAfterManage(chat.self, chat.history),
                            !.history = manage_history(chat.self, chat.history),
                            !.out = manage_history(chat.self, chat.history)]
    /\ UNCHANGED <<serverVars, db, lock, thread, last_use>>

NextHistory ==
    \/ TrimHistory
    \/ GetHistorySize
    \/ ShouldTrim
    \/ ManageHistory

SpecHistory == InitHistory /\ [][NextHistory]_vars

\* C22: trim_history returns a history of at most max_messages + 1 messages
\* as it is; a longer one becomes its first message, the summary message when
\* a summary is stored, and then exactly the last max_messages messages in
\* their order, for every max_messages >= 0.
C22_TrimKeepsRecent ==
    chat.call = "trim_history" =>
        LET n == Len(chat.history)
            keep == chat.self.max_messages
            head == IF chat.self.summary # None THEN 2 ELSE 1
        IN IF n <= keep + 1
           THEN chat.out = chat.history
           ELSE /\ Len(chat.out) = head + keep
                /\ chat.out[1] = chat.history[1]
                /\ chat.self.summary # None => chat.out[2].id = 0
                /\ \A k \in 1 .. keep : chat.out[head + k] = chat.history[n - keep + k]

\* C23: get_history_size reports estimated_tokens as the total character
\* count divided by 4, and should_trim answers true whenever that estimate
\* exceeds max_tokens.
C23_TokenEstimate ==
    /\ chat.call = "get_history_size" =>
          chat.out.estimated_tokens = TotalChars(chat.history, 1) \div 4
    /\ (chat.call = "should_trim"
           /\ TotalChars(chat.history, 1) \div 4 > chat.self.max_tokens) => chat.out

(***************************************************************************)
(* DatabaseManager (src/src/database_manager.py)                           *)
(*                                                                         *)
(* Threads of one process call the methods of one DatabaseManager.  Every  *)
(* method runs its statements inside "with self.get_connection() as conn", *)
(* and get_connection yields while it holds self._lock, so the body of a   *)
(* with block runs with the lock held.  A thread's calls are kept as a     *)
(* stack of frames, one per running use of get_connection: save_message    *)
(* calls create_conversation from inside its own with block.  `db` holds   *)
(* the committed rows only: a connection that is closed before its commit  *)
(* leaves no trace.                                                        *)
(***************************************************************************)

Threads == {1, 2}
\* The conversation the calls name, and another one with rows of its own.
ConvIds == {"a"}
OtherIds == {"b"}
Timestamps == {1, 2}

\* Bound on the calls the threads make in all, and on the rows stored
\* beforehand.
MaxOps == 3
MaxStored == 3

\* max_retries (database_manager.py:37).
MaxRetries == 5

\* Optional[int]: None is <<>>, an int n is <<n>>.
Optional(S) == {<<>>} \cup {<<n>> : n \in S}
Truthy(opt) == opt # <<>> /\ opt[1] # 0

\* An empty database; `clock` is what CURRENT_TIMESTAMP evaluates to, to the
\* second: the calls of one run fall into one second.
NoRows == [conversations |-> <<>>, messages |-> <<>>, seq |-> 0, clock |-> 1]

\* The exceptions told apart: sqlite3.OperationalError whose text holds
\* 'database is locked', any other sqlite3.OperationalError, and the
\* RuntimeError of contextlib ("generator didn't stop after throw()").
Errors == {"locked", "operational", "runtime"}

\* The state of one use of get_connection, before `for attempt in range(...)`.
NewFrame(fn, a) ==
    [fn |-> fn, a |-> a, pos |-> "enter", attempt |-> 0, opened |-> 0, closed |-> 0,
     yields |-> 0, ran |-> 0, err |-> "none", total |-> 0, rows |-> <<>>]

\* A thread that has called nothing yet.
StartThread == [stack |-> <<>>, calls |-> 0, leaked |-> 0]

RECURSIVE CallsMade(_, _)
CallsMade(threads, t) ==
    IF t \notin DOMAIN threads THEN 0 ELSE threads[t].calls + CallsMade(threads, t + 1)

Top(th) == th.stack[Len(th.stack)]
SetTop(th, f) == [th EXCEPT !.stack[Len(th.stack)] = f]

\* with self._lock: threading.RLock, re-entrant for its owner.
CanAcquire(t) == lock.owner \in {None, t}
Acquired(l, t) == [owner |-> t, depth |-> l.depth + 1]
Released(l) ==
    IF l.depth = 1 THEN [owner |-> None, depth |-> 0] ELSE [l EXCEPT !.depth = @ - 1]

\* What a finished use of get_connection leaves behind in `last_use`:
\* `delivered` is the exception its with statement raised, "none" when it
\* completed, and `rows` what the method returns then.
Finished(t, f, delivered) ==
    [thread |-> t, fn |-> f.fn, a |-> f.a, attempts |-> f.attempt + 1,
     opened |-> f.opened, closed |-> f.closed, yields |-> f.yields, ran |-> f.ran,
     raised |-> f.err, delivered |-> delivered,
     rows |-> IF delivered = "none" THEN f.rows ELSE <<>>]

\* The thread after its top frame `f` has left its with statement.
\* get_recent_messages goes on into get_messages (database_manager.py:210);
\* create_conversation returns into the body of save_message, or raises
\* into it (database_manager.py:130); any other method returns to the caller.
Leave(th, f, delivered) ==
    LET n == Len(th.stack)
    IN IF f.fn = "get_recent_messages" /\ delivered = "none"
       THEN SetTop(th, NewFrame("get_messages",
                                [f.a EXCEPT !.offset = Max(0, f.total - f.a.limit[1])]))
       ELSE IF n > 1
       THEN [th EXCEPT !.stack = Append(SubSeq(th.stack, 1, n - 2),
                                        [th.stack[n - 1] EXCEPT
                                            !.pos = IF delivered = "none" THEN "insert"
                                                    ELSE "throw",
                                            !.err = delivered])]
       ELSE [th EXCEPT !.stack = <<>>]

\* The methods the threads call, with their arguments.
WriteOps ==
    [fn : {"create_conversation", "save_message", "update_conversation_title",
           "delete_conversation"},
     conversation_id : ConvIds, limit : {<<>>}, offset : {0}]

ReadOps ==
    [fn : {"get_messages"}, conversation_id : ConvIds,
     limit : Optional(0 .. 2), offset : 0 .. 2]
    \cup [fn : {"get_recent_messages"}, conversation_id : ConvIds,
          limit : {<<n>> : n \in 0 .. 2}, offset : {0}]

\* A thread calls a method: its first statement is the with statement.
Call(t, ops, budget) ==
    /\ thread[t].stack = <<>>
    /\ CallsMade(thread, 1) < budget
    /\ \E op \in ops :
         thread' = [thread EXCEPT ![t].stack = <<NewFrame(op.fn, op)>>,
                                  ![t].calls = @ + 1]
    /\ last_use' = <<>>
    /\ UNCHANGED <<serverVars, chat, db, lock>>

\* The retry loop up to the yield (database_manager.py:40-52).  In each
\* turn the lock is taken, the connection opened and the two PRAGMAs run.  A
\* turn whose PRAGMA raises 'database is locked' closes its connection,
\* leaves the lock, sleeps and, before the last attempt, goes round again:
\* it leaves nothing behind but the attempt count, so the turns that fail
\* this way are taken together with the turn `k` that ends the loop, which
\* yields (o = "none"), raises 'database is locked' as the last attempt, or
\* has sqlite3.connect raise something else.  When the loop is here because
\* the body's exception was caught (f.err is that exception), the generator
\* yields a second time: contextlib answers with RuntimeError and the
\* generator stays suspended, lock held and connection open, until it is
\* closed or collected.
Enter(t) ==
    /\ thread[t].stack # <<>>
    /\ Top(thread[t]).pos = "enter"
    /\ CanAcquire(t)
    /\ LET th == thread[t]
           f == Top(th)
       IN \E k \in f.attempt .. MaxRetries - 1, o \in {"none", "locked", "operational"} :
            LET failed == k - f.attempt
                h == [f EXCEPT !.attempt = k, !.opened = @ + failed, !.closed = @ + failed]
            IN CASE o = "none" ->
                      LET g == [h EXCEPT !.opened = @ + 1, !.yields = @ + 1, !.pos = "body"]
                      IN IF f.err = "none"
                         THEN /\ thread' = [thread EXCEPT ![t] = SetTop(th, g)]
                              /\ lock' = Acquired(lock, t)
                              /\ last_use' = <<>>
                         ELSE \E closed_now \in BOOLEAN :
                                IF closed_now
                                THEN /\ thread' = [thread EXCEPT ![t] =
                                                       Leave(th, g, "runtime")]
                                     /\ lock' = lock
                                     /\ last_use' = Finished(t, [g EXCEPT !.closed = @ + 1],
                                                             "runtime")
                                ELSE /\ thread' = [thread EXCEPT ![t] =
                                          [Leave(th, g, "runtime") EXCEPT !.leaked = @ + 1]]
                                     /\ lock' = Acquired(lock, t)
                                     /\ last_use' = Finished(t, g, "runtime")
                 [] o = "locked" ->
                      /\ k = MaxRetries - 1
                      /\ thread' = [thread EXCEPT ![t] = Leave(th, h, "locked")]
                      /\ lock' = lock
                      /\ last_use' = Finished(t, [h EXCEPT !.opened = @ + 1,
                                                           !.closed = @ + 1], "locked")
                 [] o = "operational" ->
                      /\ thread' = [thread EXCEPT ![t] = Leave(th, h, "operational")]
                      /\ lock' = lock
                      /\ last_use' = Finished(t, h, "operational")
    /\ UNCHANGED <<serverVars, chat, db>>

\* The body of the with statement ran to its end: the generator is resumed,
\* breaks out of the loop, the lock is released and the connection closed
\* (database_manager.py:53, 62-64).
Exit(t) ==
    /\ thread[t].stack # <<>>
    /\ Top(thread[t]).pos = "exit"
    /\ LET f == Top(thread[t])
       IN /\ thread' = [thread EXCEPT ![t] = Leave(thread[t], f, "none")]
          /\ last_use' = Finished(t, [f EXCEPT !.closed = @ + 1], "none")
    /\ lock' = Released(lock)
    /\ UNCHANGED <<serverVars, chat, db>>

\* The body raised: the exception is thrown into the generator at its yield
\* and leaves the lock.  'database is locked' before the last attempt is
\* taken for a failure to open: the connection is closed and the loop goes
\* on (database_manager.py:54-59); anything else closes the connection and
\* reaches the caller.
Throw(t) ==
    /\ thread[t].stack # <<>>
    /\ Top(thread[t]).pos = "throw"
    /\ LET th == thread[t]
           f == Top(th)
           g == [f EXCEPT !.closed = @ + 1]
       IN IF f.err = "locked" /\ f.attempt < MaxRetries - 1
          THEN /\ thread' = [thread EXCEPT ![t] =
                                 SetTop(th, [g EXCEPT !.attempt = @ + 1, !.pos = "enter"])]
               /\ last_use' = <<>>
          ELSE /\ thread' = [thread EXCEPT ![t] = Leave(th, g, f.err)]
               /\ last_use' = Finished(t, g, f.err)
    /\ lock' = Released(lock)
    /\ UNCHANGED <<serverVars, chat, db>>

\* A generator left suspended at its second yield is closed: GeneratorExit
\* leaves the lock and the finally clause closes the connection.
Collect(t) ==
    /\ thread[t].leaked > 0
    /\ thread' = [thread EXCEPT ![t].leaked = @ - 1]
    /\ lock' = Released(lock)
    /\ last_use' = <<>>
    /\ UNCHANGED <<serverVars, chat, db>>

\* The rows after each statement of the methods, once committed.
\* INSERT INTO conversations: the UNIQUE constraint raises IntegrityError for
\* an id that is stored already, which create_conversation passes over.
InsertConversation(d, c) ==
    IF c \in DOMAIN d.conversations THEN d
    ELSE [d EXCEPT !.conversations =
             (c :> [title |-> "New Conversation", updated_at |-> d.clock]) @@ @]

\* INSERT INTO messages, then UPDATE conversations SET updated_at.
InsertMessage(d, c) ==
    [d EXCEPT !.messages = Append(@, [id |-> d.seq + 1, conversation_id |-> c,
                                      timestamp |-> d.clock]),
              !.seq = @ + 1,
              !.conversations = [k \in DOMAIN @ |->
                                    IF k = c THEN [@[k] EXCEPT !.updated_at = d.clock]
                                    ELSE @[k]]]

UpdateTitle(d, c) ==
    [d EXCEPT !.conversations = [k \in DOMAIN @ |->
                                    IF k = c THEN [@[k] EXCEPT !.title = "Renamed"]
                                    ELSE @[k]]]

\* DELETE FROM messages, then DELETE FROM conversations.
DeleteRowsConversationOnly(d, c) ==
    [d EXCEPT !.conversations = [k \in DOMAIN @ \ {c} |-> @[k]]]

DeleteRows(d, c) ==
    [d EXCEPT !.messages = SelectSeq(@, LAMBDA m : m.conversation_id # c),
              !.conversations = [k \in DOMAIN @ \ {c} |-> @[k]]]

\* WHERE conversation_id = ? ORDER BY timestamp ASC: the rows of the
\* conversation by timestamp, rows of one timestamp in rowid order (the
\* order of idx_conversation_messages).
RECURSIVE OrderByTimestamp(_, _)
OrderByTimestamp(rows, ts) ==
    IF \A r \in Range(rows) : r.timestamp < ts THEN <<>>
    ELSE SelectSeq(rows, LAMBDA r : r.timestamp = ts) \o OrderByTimestamp(rows, ts + 1)

MessagesOf(d, c) ==
    OrderByTimestamp(SelectSeq(d.messages, LAMBDA m : m.conversation_id = c), 0)

\* LIMIT n OFFSET o of SQLite: a negative n is no limit, a negative o is 0.
LimitOffset(rows, n, o) ==
    LET rest == SubSeq(rows, Max(o, 0) + 1, Len(rows))
    IN IF n < 0 THEN rest ELSE SubSeq(rest, 1, Min(n, Len(rest)))

\* "if limit:" (database_manager.py:173): LIMIT and OFFSET are added for a
\* limit that is neither None nor 0.
Query(d, c, limit, offset) ==
    IF Truthy(limit) THEN LimitOffset(MessagesOf(d, c), limit[1], offset)
    ELSE MessagesOf(d, c)

\* The frame after the statements of a with block: they all ran and the
\* commit went through (o = "none"), or one of them raised o and the
\* connection will be closed with nothing committed.
Ran(f, o) ==
    [f EXCEPT !.ran = @ + 1, !.err = o, !.pos = IF o = "none" THEN "exit" ELSE "throw"]

InBody(t, fn, pos) ==
    /\ thread[t].stack # <<>>
    /\ Top(thread[t]).fn = fn
    /\ Top(thread[t]).pos = pos

\* create_conversation (database_manager.py:105-118).
CreateConversation(t) ==
    /\ InBody(t, "create_conversation", "body")
    /\ LET f == Top(thread[t])
       IN \E o \in {"none", "locked", "operational"} :
            /\ thread' = [thread EXCEPT ![t] = SetTop(thread[t], Ran(f, o))]
            /\ db' = IF o = "none" THEN InsertConversation(db, f.a.conversation_id)
                     ELSE db
    /\ last_use' = <<>>
    /\ UNCHANGED <<serverVars, chat, lock>>

\* save_message up to "self.create_conversation(conversation_id)"
\* (database_manager.py:126-130): a second use of get_connection starts
\* inside the first.
SaveMessageEnsure(t) ==
    /\ InBody(t, "save_message", "body")
    /\ LET th == thread[t]
           f == Top(th)
           g == [f EXCEPT !.ran = @ + 1, !.pos = "nested"]
       IN thread' = [thread EXCEPT ![t] =
                        [th EXCEPT !.stack = Append(SubSeq(th.stack, 1, Len(th.stack) - 1), g)
                                             \o <<NewFrame("create_conversation", f.a)>>]]
    /\ last_use' = <<>>
    /\ UNCHANGED <<serverVars, chat, db, lock>>

\* save_message behind create_conversation (database_manager.py:133-145).
SaveMessageInsert(t) ==
    /\ InBody(t, "save_message", "insert")
    /\ LET f == Top(thread[t])
       IN \E o \in {"none", "locked", "operational"} :
            /\ thread' = [thread EXCEPT ![t] =
                             SetTop(thread[t], [Ran(f, o) EXCEPT !.ran = f.ran])]
            /\ db' = IF o = "none" THEN InsertMessage(db, f.a.conversation_id)
                     ELSE db
    /\ last_use' = <<>>
    /\ UNCHANGED <<serverVars, chat, lock>>

\* update_conversation_title (database_manager.py:297-305).
UpdateConversationTitle(t) ==
    /\ InBody(t, "update_conversation_title", "body")
    /\ LET f == Top(thread[t])
       IN \E o \in {"none", "locked", "operational"} :
            /\ thread' = [thread EXCEPT ![t] = SetTop(thread[t], Ran(f, o))]
            /\ db' = IF o = "none" THEN UpdateTitle(db, f.a.conversation_id) ELSE db
    /\ last_use' = <<>>
    /\ UNCHANGED <<serverVars, chat, lock>>

\* delete_conversation (database_manager.py:287-293).
DeleteConversation(t) ==
    /\ InBody(t, "delete_conversation", "body")
    /\ LET f == Top(thread[t])
       IN \E o \in {"none", "locked", "operational"} :
            /\ thread' = [thread EXCEPT ![t] = SetTop(thread[t], Ran(f, o))]
            /\ db' = IF o = "none" THEN DeleteRows(db, f.a.conversation_id) ELSE db
    /\ last_use' = <<>>
    /\ UNCHANGED <<serverVars, chat, lock>>

\* get_messages (database_manager.py:162-190).
GetMessages(t) ==
    /\ InBody(t, "get_messages", "body")
    /\ LET f == Top(thread[t])
       IN \E o \in {"none", "locked", "operational"} :
            thread' = [thread EXCEPT ![t] =
                          SetTop(thread[t],
                                 [Ran(f, o) EXCEPT !.rows =
                                     IF o = "none"
                                     THEN Query(db, f.a.conversation_id, f.a.limit, f.a.offset)
                                     ELSE <<>>])]
    /\ last_use' = <<>>
    /\ UNCHANGED <<serverVars, chat, db, lock>>

\* get_recent_messages up to the end of its with block
\* (database_manager.py:196-208).
GetRecentCount(t) ==
    /\ InBody(t, "get_recent_messages", "body")
    /\ LET f == Top(thread[t])
       IN \E o \in {"none", "locked", "operational"} :
            thread' = [thread EXCEPT ![t] =
                          SetTop(thread[t],
                                 [Ran(f, o) EXCEPT !.total =
                                     Len(MessagesOf(db, f.a.conversation_id))])]
    /\ last_use' = <<>>
    /\ UNCHANGED <<serverVars, chat, db, lock>>

\* Threads writing to an empty database.
InitStore ==
    /\ ServerIdle
    /\ chat = <<>>
    /\ db = NoRows
    /\ lock = [owner |-> None, depth |-> 0]
    /\ last_use = <<>>
    /\ thread = [t \in Threads |-> StartThread]

NextStore ==
    \E t \in Threads :
        \/ Call(t, WriteOps, MaxOps)
        \/ Enter(t)
        \/ CreateConversation(t)
        \/ SaveMessageEnsure(t)
        \/ SaveMessageInsert(t)
        \/ UpdateConversationTitle(t)
        \/ DeleteConversation(t)
        \/ Exit(t)
        \/ Throw(t)
        \/ Collect(t)

SpecStore == InitStore /\ [][NextStore]_vars

\* The rows a database may hold when a thread reads it.
StoredMessages ==
    UNION {{[i \in 1 .. n |-> [id |-> i, conversation_id |-> f[i][1], timestamp |-> f[i][2]]] :
               f \in [1 .. n -> (ConvIds \cup OtherIds) \X Timestamps]} : n \in 0 .. MaxStored}

Stored(messages) ==
    [conversations |-> [c \in {m.conversation_id : m \in Range(messages)} |->
                           [title |-> "New Conversation", updated_at |-> 2]],
     messages |-> messages, seq |-> Len(messages), clock |-> 2]

\* One call reading a database that holds rows.
InitMessages ==
    /\ ServerIdle
    /\ chat = <<>>
    /\ \E messages \in StoredMessages : db = Stored(messages)
    /\ lock = [owner |-> None, depth |-> 0]
    /\ last_use = <<>>
    /\ thread = [t \in Threads |-> StartThread]

NextMessages ==
    \E t \in Threads :
        \/ Call(t, ReadOps, 1)
        \/ Enter(t)
        \/ GetMessages(t)
        \/ GetRecentCount(t)
        \/ Exit(t)
        \/ Throw(t)
        \/ Collect(t)

SpecMessages == InitMessages /\ [][NextMessages]_vars

\* The messages of conversation c in ascending timestamp order, without the
\* first `offset` of them, cut to `limit` messages when limit is a number.
Expected(d, c, limit, offset) ==
    LET rest == SubSeq(MessagesOf(d, c), offset + 1, Len(MessagesOf(d, c)))
    IN IF limit = <<>> THEN rest ELSE SubSeq(rest, 1, Min(limit[1], Len(rest)))

\* C21: get_messages(conversation_id, limit, offset) returns the messages of
\* that conversation in ascending timestamp order, skipping the first
\* `offset` and returning at most `limit` of them, all that remain when limit
\* is None, for every limit (None and 0 included) and offset.
C21_LimitOffset ==
    (last_use # <<>> /\ last_use.fn = "get_messages" /\ last_use.delivered = "none") =>
        /\ last_use.rows = Expected(db, last_use.a.conversation_id, last_use.a.limit,
                                    last_use.a.offset)
        /\ \A i, j \in DOMAIN last_use.rows :
              i < j => last_use.rows[i].timestamp <= last_use.rows[j].timestamp

\* C28: every stored message names a stored conversation, whatever the
\* threads have called so far, and the step in which delete_conversation
\* commits leaves neither the conversation nor a message of it.
C28_NoOrphanMessages ==
    /\ [](\A m \in Range(db.messages) : m.conversation_id \in DOMAIN db.conversations)
    /\ [][\A t \in Threads :
            (/\ InBody(t, "delete_conversation", "body")
             /\ Top(thread'[t]).pos = "exit")
            => LET c == Top(thread[t]).a.conversation_id
               IN /\ c \notin DOMAIN db'.conversations
                  /\ \A m \in Range(db'.messages) : m.conversation_id # c]_vars

\* A conversation with a message in it was deleted by one thread while the
\* other thread is inside save_message for it, behind its
\* create_conversation: the message it is about to insert finds its
\* conversation row.
C28_Witness ==
    /\ db.seq >= 1
    /\ db.messages = <<>>
    /\ DOMAIN db.conversations = {"a"}
    /\ \E t \in Threads : InBody(t, "save_message", "insert")

\* C29: a use of get_connection makes at most 5 attempts and runs the body
\* of its with statement at most once; an error raised inside the body
\* reaches the caller as that error, with no second connection opened or
\* yielded; every connection opened is closed when the with statement is
\* left.
C29_RetryOnlyOpen ==
    last_use # <<>> =>
        /\ last_use.attempts <= MaxRetries
        /\ last_use.ran <= 1
        /\ last_use.yields <= 1
        /\ last_use.closed = last_use.opened
        /\ last_use.raised # "none" => last_use.delivered = last_use.raised

====
